---- MODULE Spec2Model ----
(***************************************************************************)
(* Model of the animation job engine of fastapi_manim_app:                 *)
(*   - the generate-animation route and generate_animation_from_query      *)
(*     (app/api/routes/animation.py, app/services/manim_service.py),       *)
(*   - the ledger operations they call (conversation_service.py,           *)
(*     message_service.py, animation_service.py),                          *)
(*   - the store, as rows that are either committed or pending in the      *)
(*     session (one AsyncSession per request, core/database.py) that       *)
(*     flushed them.  A session sees the committed rows and its own.       *)
(* An await that reads or commits shared rows is an interleaving point.    *)
(* Text is a sequence of string tokens, so that formatting (an f-string)   *)
(* is concatenation and "contains" is a search for a token.                *)
(* The tables are those of models/db_models.py, with its constraints       *)
(* (foreign key of messages, nullable=False of animations.query).          *)
(***************************************************************************)
EXTENDS Integers, Sequences, FiniteSets, TLC

\* ------------------------------------------------------------------ bounds
MaxJobs == 2
MaxConvs == 1

Jobs == 1..MaxJobs
Users == {"u1", "u2"}
\* the actors who open conversations through POST /api/conversations
ApiUsers == {"u1"}

\* Python's None for an optional id; ids are positive
None == 0
\* conversation ids (uuid4): request j's new conversation gets j, the k-th
\* conversation of POST /api/conversations gets MaxJobs + k
ApiConvId(k) == MaxJobs + k
\* the conversation and the animation the store may hold from before (below)
SeedConvId == MaxJobs + MaxConvs + 1
SeedAnimationId == MaxJobs + 1
\* an id no conversation ever has
UnknownConvId == MaxJobs + MaxConvs + 2
ConvIds == 1..UnknownConvId

\* request texts, as word sequences
Queries == { <<"draw", "a", "triangle", "turning", "into", "a", "square">> }
\* what POST /api/conversations may carry as title and as initial_prompt
TitleInputs == { <<>> }
PromptInputs == { <<>> }
\* the request's previous_code ("" stands for None / empty)
PrevCodes == {""}
\* what the renderer may write to stderr
ErrTexts == {"stderr_a"}
\* where the renderer may leave its mp4 under media_dir:
\*   "none": nowhere, "expected": videos/GeneratedManimScene/x.mp4,
\*   "nested": deeper or elsewhere in the tree (videos/<script>/<q>/x.mp4)
Placements == {"none", "expected", "nested"}

\* --------------------------------------------------------------- settings
\* the attributes class Settings declares (core/config.py)
SettingsAttrs ==
    { "PROJECT_NAME", "PROJECT_DESCRIPTION", "VERSION", "DOCS_URL", "REDOC_URL",
      "OPENAPI_URL", "ALLOWED_ORIGINS", "ENVIRONMENT", "DEBUG", "LOG_LEVEL",
      "JSON_LOGS", "TEMP_BASE_DIR", "STATIC_VIDEOS_DIR",
      "SERVED_VIDEOS_PATH_PREFIX", "DATABASE_URL", "POSTGRES_HOST",
      "POSTGRES_PORT", "POSTGRES_USER", "POSTGRES_PASSWORD", "POSTGRES_DB",
      "DATABASE_ECHO", "SQLALCHEMY_DATABASE_URI", "TEST_POSTGRES_DB",
      "TEST_SQLALCHEMY_DATABASE_URI" }

\* settings.<name>: reading an attribute the class does not declare raises
\* AttributeError (pydantic BaseModel.__getattr__)
HasSetting(name) == name \in SettingsAttrs

VARIABLES
    conversations,  \* set of rows [id, user_id, title, pending]
    animations,     \* function: animation id -> row
    messages,       \* per conversation id: its rows in created_at order
    apiConvs,       \* conversations created through POST /api/conversations
    pc,             \* pc[j]: where request j is
    job,            \* job[j]: the locals of request j
    result,         \* result[j]: how generate_animation_from_query ended
    response,       \* response[j]: HTTP status answered to request j
    jobDirs         \* the job directories that exist under TEMP_BASE_DIR

vars == << conversations, animations, messages, apiConvs,
           pc, job, result, response, jobDirs >>

\* ------------------------------------------------------------------ store
\* a row's "pending" is 0 once committed; s > 0 when the session of request s
\* has flushed its INSERT and not committed; -s when the row is committed and
\* the session of request s has executed its DELETE and not committed. A
\* session reads the committed rows (READ COMMITTED: a DELETE another session
\* has not committed hides nothing), its own inserts, and not its own deletes
Visible(s, row) ==
    \/ row.pending = 0
    \/ row.pending = s
    \/ row.pending < 0 /\ row.pending # -s

\* the row is in the committed store
IsCommitted(row) == row.pending <= 0

CommitRow(s, row) == IF row.pending = s THEN [row EXCEPT !.pending = 0] ELSE row

\* AsyncSession.commit(): every insert the session flushed becomes visible,
\* every row it deleted is gone
CommitConversations(convs, s) ==
    { CommitRow(s, c) : c \in { x \in convs : x.pending # -s } }
CommitAnimations(anims, s) ==
    [a \in { x \in DOMAIN anims : anims[x].pending # -s } |->
        CommitRow(s, anims[a])]
CommitMessages(msgs, s) ==
    [c \in DOMAIN msgs |->
        LET kept == SelectSeq(msgs[c], LAMBDA m : m.pending # -s)
        IN  [i \in DOMAIN kept |-> CommitRow(s, kept[i])]]

RollbackRow(s, row) == IF row.pending = -s THEN [row EXCEPT !.pending = 0] ELSE row

\* AsyncSession.rollback(): every insert the session flushed is discarded,
\* every row it deleted is back
RollbackConversations(convs, s) ==
    { RollbackRow(s, c) : c \in { x \in convs : x.pending # s } }
RollbackAnimations(anims, s) ==
    [a \in { x \in DOMAIN anims : anims[x].pending # s } |->
        RollbackRow(s, anims[a])]
RollbackMessages(msgs, s) ==
    [c \in DOMAIN msgs |->
        LET kept == SelectSeq(msgs[c], LAMBDA m : m.pending # s)
        IN  [i \in DOMAIN kept |-> RollbackRow(s, kept[i])]]

\* row locks: a DELETE another session has executed and not committed holds
\* the row, and a statement that needs the row waits for that session to end
\* (an UPDATE of the row; an INSERT whose foreign key references it)
DeletePendingByOther(s, row) == row.pending < 0 /\ row.pending # -s

ConversationLocked(s, conversation_id) ==
    \E c \in conversations :
        c.id = conversation_id /\ DeletePendingByOther(s, c)

AnimationLocked(s, animation_id) ==
    /\ animation_id \in DOMAIN animations
    /\ DeletePendingByOther(s, animations[animation_id])

\* request j's next statement does not wait for a lock
Unblocked(j) ==
    /\ ~ AnimationLocked(j, job[j].animation_id)
    /\ ~ ConversationLocked(j, job[j].conversation_id)

\* select(Conversation).where(id == conversation_id, user_id == user_id)
OwnedConversation(s, conversation_id, user_id) ==
    { c \in conversations :
        c.id = conversation_id /\ c.user_id = user_id /\ Visible(s, c) }

\* the foreign key messages.conversation_id -> conversations.id
ConversationExists(s, conversation_id) ==
    \E c \in conversations : c.id = conversation_id /\ Visible(s, c)

\* the messages of a conversation a session sees, oldest first
MessagesOf(s, conversation_id) ==
    SelectSeq(messages[conversation_id], LAMBDA m : Visible(s, m))

\* ------------------------------------------------------------------- text
Contains(text, token) == \E i \in DOMAIN text : text[i] = token
IsEmptyText(text) == \A i \in DOMAIN text : text[i] = ""

SetMax(S) == CHOOSE x \in S : \A y \in S : y <= x

\* str.upper() of the first character of a word
Capitalize(word) ==
    CASE word = "draw" -> "Draw"
      [] word = "circle" -> "Circle"
      [] word = "my" -> "My"
      [] word = "mIXED" -> "MIXED"
      [] OTHER -> word

\* a text is a sequence of tokens: words, and " " for a run of whitespace
\* that is more than the single space between two words
IsBlank(token) == token = " " \/ token = ""

\* str.split(): the words
Split(text) == SelectSeq(text, LAMBDA token : ~ IsBlank(token))

\* str.strip(): the text without leading and trailing whitespace
Strip(text) ==
    LET inked == { i \in DOMAIN text : ~ IsBlank(text[i]) }
    IN  IF inked = {} THEN << >>
        ELSE SubSeq(text, CHOOSE i \in inked : \A k \in inked : i <= k,
                          SetMax(inked))

\* a variant of generate_conversation_title: a short prompt's words are
\* joined by single spaces too
generate_conversation_title_joined(prompt) ==
    LET words == Split(prompt)
        title == IF Len(words) <= 5 THEN words
                 ELSE SubSeq(words, 1, 5) \o <<"...">>
    IN  IF Len(title) > 0
        THEN <<Capitalize(title[1])>> \o SubSeq(title, 2, Len(title))
        ELSE title

\* generate_conversation_title: the first five words, "..." when there are more
generate_conversation_title(prompt) ==
    LET words == Split(prompt)
        title == IF Len(words) <= 5 THEN Strip(prompt)
                 ELSE SubSeq(words, 1, 5) \o <<"...">>
    IN  IF Len(title) > 0
        THEN <<Capitalize(title[1])>> \o SubSeq(title, 2, Len(title))
        ELSE title

\* create_conversation: the title given, else one made from the prompt, else
\* "Conversation <uuid prefix>"
create_conversation_title(title, initial_prompt) ==
    IF Len(title) = 0 /\ Len(initial_prompt) > 0
    THEN generate_conversation_title(initial_prompt)
    ELSE IF Len(title) = 0 THEN <<"Conversation", "uuid8">>
    ELSE title

\* generate_manim_code_from_llm: the seed when there is one, else one of two
\* canned scenes chosen by the words of the query
generate_manim_code_from_llm(query, previous_code) ==
    IF previous_code # "" THEN previous_code
    ELSE IF Contains(query, "triangle") /\ Contains(query, "square")
         THEN "TRIANGLE_TO_SQUARE_SCENE"
         ELSE "CIRCLE_SCENE"

\* ----------------------------------------------------------------- ledger
\* create_message: one row appended, flushed in session s
create_message(msgs, s, conversation_id, user_id, content, message_type, animation_id) ==
    [msgs EXCEPT ![conversation_id] =
        Append(@, [ conversation_id |-> conversation_id, user_id |-> user_id,
                    content |-> content, type |-> message_type,
                    animation_id |-> animation_id, pending |-> s ])]

\* a variant of MaxVersionQuery: the select has no where clause
MaxVersionQueryAnyConversation(s, conversation_id) ==
    LET vs == { animations[a].version : a \in
                  { x \in DOMAIN animations : Visible(s, animations[x]) } }
    IN  IF vs = {} THEN {} ELSE {SetMax(vs)}

\* select(func.max(Animation.version)).where(conversation_id == ...), as
\* session s evaluates it: the set of values it returns, empty for SQL NULL
MaxVersionQuery(s, conversation_id) ==
    LET vs == { animations[a].version : a \in
                  { x \in DOMAIN animations :
                      /\ animations[x].conversation_id = conversation_id
                      /\ Visible(s, animations[x]) } }
    IN  IF vs = {} THEN {} ELSE {SetMax(vs)}

\* save_animation, first half: "result.scalar_one_or_none() or 0"
MaxVersion(s, conversation_id) ==
    IF MaxVersionQuery(s, conversation_id) = {} THEN 0
    ELSE SetMax(MaxVersionQuery(s, conversation_id))

\* save_animation rebinds its parameter "query" to that select statement
\* before it builds the row, so "query=query" hands the statement to the
\* column: the insert computes the column from the statement as a scalar
\* subquery, a number stored as text, or NULL, which the column's
\* nullable=False rejects
QueryColumnIsNull(s, conversation_id) == MaxVersionQuery(s, conversation_id) = {}
QueryColumn(s, conversation_id) == << ToString(MaxVersion(s, conversation_id)) >>

\* Animation.created_at, default=datetime.utcnow, evaluated when the row is
\* inserted: later than the created_at of every row inserted before
UtcNow == 1 + SetMax({0} \cup { animations[a].created_at : a \in DOMAIN animations })

\* a variant of NewAnimation: the row is created already PROCESSING
NewAnimationProcessing(s, conversation_id, user_id, max_version) ==
    [ conversation_id |-> conversation_id, user_id |-> user_id,
      query |-> QueryColumn(s, conversation_id),
      generated_code |-> "", video_url |-> "", version |-> max_version + 1,
      success |-> FALSE, status |-> "processing", progress |-> 10,
      status_message |-> <<"Generating Manim code">>,
      created_at |-> UtcNow, pending |-> s ]

\* a variant of NewAnimation: the row is created with success True
NewAnimationSucceeded(s, conversation_id, user_id, max_version) ==
    [ conversation_id |-> conversation_id, user_id |-> user_id,
      query |-> QueryColumn(s, conversation_id),
      generated_code |-> "", video_url |-> "", version |-> max_version + 1,
      success |-> TRUE, status |-> "pending", progress |-> 0,
      status_message |-> <<"Initializing animation generation">>,
      created_at |-> UtcNow, pending |-> s ]

\* save_animation, second half: the row inserted with version max + 1
NewAnimation(s, conversation_id, user_id, max_version) ==
    [ conversation_id |-> conversation_id, user_id |-> user_id,
      query |-> QueryColumn(s, conversation_id),
      generated_code |-> "", video_url |-> "", version |-> max_version + 1,
      success |-> FALSE, status |-> "pending", progress |-> 0,
      status_message |-> <<"Initializing animation generation">>,
      created_at |-> UtcNow, pending |-> s ]

\* a variant of update_animation_status: the status message is left as it was
update_animation_status_keeping_message(anims, s, animation_id, status, progress, status_message) ==
    IF animation_id \in DOMAIN anims /\ Visible(s, anims[animation_id])
    THEN [anims EXCEPT ![animation_id].status = status,
                       ![animation_id].progress = progress]
    ELSE anims

\* what update_animation_status returns: True when its select finds the
\* row, False ("if not animation: return False") when it finds none
update_animation_status_returns(anims, s, animation_id) ==
    animation_id \in DOMAIN anims /\ Visible(s, anims[animation_id])

\* a variant of update_animation_status: a row is made for an id that has none
update_animation_status_upsert(anims, s, animation_id, status, progress, status_message) ==
    IF animation_id \in DOMAIN anims /\ Visible(s, anims[animation_id])
    THEN [anims EXCEPT ![animation_id].status = status,
                       ![animation_id].progress = progress,
                       ![animation_id].status_message = status_message]
    ELSE [a \in DOMAIN anims \cup {animation_id} |->
            IF a = animation_id
            THEN [ conversation_id |-> None, user_id |-> "", query |-> << >>,
                   generated_code |-> "", video_url |-> "", version |-> 1,
                   success |-> FALSE, status |-> status, progress |-> progress,
                   status_message |-> status_message, created_at |-> 0,
                   pending |-> 0 ]
            ELSE anims[a]]

\* update_animation_status: the three fields written together; an id that is
\* not in the store changes nothing (the function returns False)
update_animation_status(anims, s, animation_id, status, progress, status_message) ==
    IF animation_id \in DOMAIN anims /\ Visible(s, anims[animation_id])
    THEN [anims EXCEPT ![animation_id].status = status,
                       ![animation_id].progress = progress,
                       ![animation_id].status_message = status_message]
    ELSE anims

\* --------------------------------------------------------------- requests
IdleJob ==
    [ user_id |-> "", conversation_id |-> None, query |-> <<>>,
      animation_id |-> None,
      generated_code |-> "", stderr |-> "", error_msg |-> <<>>,
      placement |-> "none", exc |-> "", path |-> "" ]

NoResult ==
    [ kind |-> "none", success |-> FALSE, video_url |-> "", error |-> <<>>,
      animation_id |-> None, conversation_id |-> None, exc |-> "" ]

\* "return success, video_url, error_msg, animation_id, conversation_id"
Returned(success, video_url, error, animation_id, conversation_id) ==
    [ kind |-> "returned", success |-> success, video_url |-> video_url,
      error |-> error, animation_id |-> animation_id,
      conversation_id |-> conversation_id, exc |-> "" ]

\* the call ends by raising
Raised(exc) == [NoResult EXCEPT !.kind = "raised", !.exc = exc]

\* a variant of AfterFinally: the block leaves the outcome as it is
AfterFinallyKeepingOutcome(outcome) == outcome

\* the finally block, on the call's outcome: "if settings.CLEANUP_TEMP_FILES
\* and job_dir.exists()" is evaluated outside the inner try, so an error
\* raised by the condition replaces whatever the call was about to deliver
AfterFinally(outcome) ==
    IF HasSetting("CLEANUP_TEMP_FILES") THEN outcome
    ELSE Raised("AttributeError")

\* the finally block, on the job directories: rmtree(job_dir) runs only when
\* the condition could be evaluated
DirsAfterFinally(dirs, j) ==
    IF HasSetting("CLEANUP_TEMP_FILES") THEN dirs \ {j} ELSE dirs

\* video_dir.glob("*.mp4") with video_dir = media_dir/videos/GeneratedManimScene:
\* the files directly in that one directory
video_files(placement) == IF placement = "expected" THEN {"expected"} ELSE {}

\* a variant of AfterRenderFailure: the block does not return, and control
\* goes on to the next failure block
AfterRenderFailureFallsThrough == "nofile"

\* where the function is after the render-failure block: it has returned
\* ("return False, '', error_msg, animation_id, conversation_id")
AfterRenderFailure == "route"

\* what the store may hold when the first request arrives: a conversation of
\* u1 with one finished animation.  No message refers to it (the migration
\* that adds the messages table comes after the one that creates
\* conversations and animations)
SeedConversation ==
    [ id |-> SeedConvId, user_id |-> "u1", title |-> <<"Conversation", "uuid8">>,
      pending |-> 0 ]
SeedAnimation ==
    [ conversation_id |-> SeedConvId, user_id |-> "u1", query |-> <<"draw", "a", "circle">>,
      generated_code |-> "CIRCLE_SCENE", video_url |-> "/manim_videos/seed.mp4",
      version |-> 1, success |-> TRUE, status |-> "completed", progress |-> 100,
      status_message |-> << >>, created_at |-> 0, pending |-> 0 ]

\* the conversations a client can name: the committed ones it can have seen
\* listed, or an id that matches nothing
NameableConversations ==
    { c.id : c \in { x \in conversations : IsCommitted(x) } } \cup {UnknownConvId}

\* the store is empty, or holds the rows above
Init ==
    /\ \E seeded \in BOOLEAN :
          /\ conversations = IF seeded THEN {SeedConversation} ELSE {}
          /\ animations = IF seeded THEN SeedAnimationId :> SeedAnimation ELSE << >>
    /\ messages = [c \in ConvIds |-> << >>]
    /\ apiConvs = 0
    /\ pc = [j \in Jobs |-> "idle"]
    /\ job = [j \in Jobs |-> IdleJob]
    /\ result = [j \in Jobs |-> NoResult]
    /\ response = [j \in Jobs |-> 0]
    /\ jobDirs = {}

(***************************************************************************)
(* Steps.  A step that touches only the job's locals, its own directory or *)
(* rows pending in its own session (which no other session can read) is    *)
(* folded into the neighbouring step that reads or commits shared rows, so *)
(* every committed state of the store is a state of the model.             *)
(***************************************************************************)

\* POST /api/conversations: create_conversation, then commit.  The step
\* commutes with every step of a job but the request that names the new
\* conversation, so it is taken before the requests arrive
StartNewConversation(u, title, initial_prompt) ==
    /\ apiConvs < MaxConvs
    /\ \A j \in Jobs : pc[j] = "idle"
    /\ conversations' = conversations \cup
          { [ id |-> ApiConvId(apiConvs + 1), user_id |-> u,
              title |-> create_conversation_title(title, initial_prompt),
              pending |-> 0 ] }
    /\ apiConvs' = apiConvs + 1
    /\ UNCHANGED << animations, messages, pc, job, result, response, jobDirs >>

\* a variant of StatusStep: the update is flushed and nothing is committed
StatusStepWithoutCommit(j, status, progress, status_message) ==
    [ animations |-> update_animation_status(animations, j, job[j].animation_id,
                                             status, progress, status_message),
      conversations |-> conversations,
      messages |-> messages,
      found |-> update_animation_status_returns(animations, j,
                                                job[j].animation_id) ]

\* one "await update_animation_status(...)": the update and its commit, which
\* commits everything the session has flushed
StatusStep(j, status, progress, status_message) ==
    [ animations |-> CommitAnimations(
          update_animation_status(animations, j, job[j].animation_id,
                                  status, progress, status_message), j),
      conversations |-> CommitConversations(conversations, j),
      messages |-> CommitMessages(messages, j),
      found |-> update_animation_status_returns(animations, j,
                                                job[j].animation_id) ]

\* "except Exception as e" for request j, on the messages msgs: an ai message
\* when a conversation id is known (the insert fails on the foreign key when
\* that conversation is not there), then
\* "return False, '', msg, None, conversation_id", then the finally block
ExceptHandler(msgs, j, conversation_id, user_id, exc) ==
    LET text == <<"Error generating animation: ", exc>>
        fk == ConversationExists(j, conversation_id)
    IN  [ messages |-> IF fk
                       THEN create_message(msgs, j, conversation_id, user_id,
                                           text, "ai", None)
                       ELSE msgs,
          result |-> AfterFinally(IF fk
                                  THEN Returned(FALSE, "", text, None,
                                                conversation_id)
                                  ELSE Raised("IntegrityError")) ]

\* POST /api/generate-animation up to the user message: the route creates a
\* conversation when the request names none; generate_animation_from_query
\* makes job_dir and media_dir; get_or_create_conversation finds the owned
\* conversation or raises ValueError; the query is recorded as a user
\* message.  Requests are numbered in their order of arrival, and the
\* conversations opened through the API differ in nothing but their id, so
\* request j names one of the first j of them
RouteBegin(j, u, cid, q) ==
    /\ pc[j] = "idle"
    /\ \A i \in Jobs : i < j => pc[i] # "idle"
    /\ cid \in NameableConversations \cup {None}
    /\ \A k \in 1..MaxConvs : cid = ApiConvId(k) => k <= j
    /\ ~ ConversationLocked(j, cid)
    /\ conversations' =
          IF cid = None
          THEN conversations \cup
                  { [ id |-> j, user_id |-> u,
                      title |-> create_conversation_title(<<>>, q),
                      pending |-> j ] }
          ELSE conversations
    /\ jobDirs' = IF cid = None \/ OwnedConversation(j, cid, u) # {}
                   THEN jobDirs \cup {j}
                   ELSE DirsAfterFinally(jobDirs \cup {j}, j)
    /\ LET conversation_id == IF cid = None THEN j ELSE cid
           started == [IdleJob EXCEPT !.user_id = u, !.query = q,
                                      !.conversation_id = conversation_id]
       IN  IF cid = None \/ OwnedConversation(j, cid, u) # {}
           THEN /\ messages' = create_message(messages, j, conversation_id,
                                              u, q, "user", None)
                /\ job' = [job EXCEPT ![j] = started]
                /\ pc' = [pc EXCEPT ![j] = "save"]
                /\ result' = result
           ELSE LET out == ExceptHandler(messages, j, conversation_id, u,
                                         "ValueError")
                IN  /\ messages' = out.messages
                    /\ result' = [result EXCEPT ![j] = out.result]
                    /\ job' = [job EXCEPT ![j] =
                                 [started EXCEPT !.exc = "ValueError",
                                                 !.path = "conversation_not_found"]]
                    /\ pc' = [pc EXCEPT ![j] = "route"]
    /\ UNCHANGED << animations, apiConvs, response >>

\* save_animation: select max(version), then the row added and flushed; the
\* animation's uuid is modelled by the request's number.  When the insert
\* is rejected the flush raises IntegrityError and the session's transaction
\* is rolled back; the flush of the except block's create_message then
\* raises PendingRollbackError, and the finally block runs
SaveAnimation(j) ==
    /\ pc[j] = "save"
    /\ IF QueryColumnIsNull(j, job[j].conversation_id)
       THEN /\ conversations' = RollbackConversations(conversations, j)
            /\ messages' = RollbackMessages(messages, j)
            /\ animations' = animations
            /\ result' = [result EXCEPT ![j] =
                             AfterFinally(Raised("PendingRollbackError"))]
            /\ jobDirs' = DirsAfterFinally(jobDirs, j)
            /\ job' = [job EXCEPT ![j].exc = "IntegrityError",
                                  ![j].path = "save_rejected"]
            /\ pc' = [pc EXCEPT ![j] = "route"]
       ELSE /\ LET max_version == MaxVersion(j, job[j].conversation_id)
               IN  animations' = animations @@
                      (j :> NewAnimation(j, job[j].conversation_id,
                                         job[j].user_id, max_version))
            /\ job' = [job EXCEPT ![j].animation_id = j]
            /\ pc' = [pc EXCEPT ![j] = "status10"]
            /\ UNCHANGED << conversations, messages, result, jobDirs >>
    /\ UNCHANGED << apiConvs, response >>

Status10(j) ==
    /\ pc[j] = "status10"
    /\ LET db == StatusStep(j, "processing", 10, <<"Generating Manim code">>)
       IN  /\ animations' = db.animations
           /\ conversations' = db.conversations
           /\ messages' = db.messages
    /\ pc' = [pc EXCEPT ![j] = "provider"]
    /\ UNCHANGED << apiConvs, job, result, response, jobDirs >>

\* "await generate_manim_code_from_llm(query, previous_code)" ends: the
\* stand-in for the external code provider, which may fail; when it returns,
\* the 30% status is written and the script file is; when it raises, the
\* except block runs.  The request's previous_code is read nowhere else, so
\* it is drawn here
Provider(j, ok, previous_code) ==
    /\ pc[j] = "provider"
    /\ Unblocked(j)
    /\ IF ok
       THEN /\ job' = [job EXCEPT ![j].generated_code =
                          generate_manim_code_from_llm(job[j].query,
                                                       previous_code)]
            /\ LET db == StatusStep(j, "processing", 30,
                            <<"Code generated, preparing to render animation">>)
               IN  /\ animations' = db.animations
                   /\ conversations' = db.conversations
                   /\ messages' = db.messages
            /\ pc' = [pc EXCEPT ![j] = "status40"]
            /\ UNCHANGED << result, jobDirs >>
       ELSE LET out == ExceptHandler(messages, j, job[j].conversation_id,
                                     job[j].user_id, "ProviderError")
            IN  /\ messages' = out.messages
                /\ result' = [result EXCEPT ![j] = out.result]
                /\ jobDirs' = DirsAfterFinally(jobDirs, j)
                /\ job' = [job EXCEPT ![j].exc = "ProviderError",
                                      ![j].path = "provider_error"]
                /\ pc' = [pc EXCEPT ![j] = "route"]
                /\ UNCHANGED << animations, conversations >>
    /\ UNCHANGED << apiConvs, response >>

\* a variant of Status40: the status written before rendering starts
\* carries a smaller progress than the one before it
Status40Behind(j) ==
    /\ pc[j] = "status40"
    /\ Unblocked(j)
    /\ LET db == StatusStep(j, "processing", 20, <<"Starting animation rendering">>)
       IN  /\ animations' = db.animations
           /\ conversations' = db.conversations
           /\ messages' = db.messages
           /\ job' = [job EXCEPT ![j].path =
                         IF db.found THEN @ ELSE "animation_not_found"]
    /\ pc' = [pc EXCEPT ![j] = "run"]
    /\ UNCHANGED << apiConvs, result, response, jobDirs >>

\* the status written before rendering starts
Status40(j) ==
    /\ pc[j] = "status40"
    /\ Unblocked(j)
    /\ LET db == StatusStep(j, "processing", 40, <<"Starting animation rendering">>)
       IN  /\ animations' = db.animations
           /\ conversations' = db.conversations
           /\ messages' = db.messages
           /\ job' = [job EXCEPT ![j].path =
                         IF db.found THEN @ ELSE "animation_not_found"]
    /\ pc' = [pc EXCEPT ![j] = "run"]
    /\ UNCHANGED << apiConvs, result, response, jobDirs >>

\* a variant of ManimError: the message without what the renderer wrote
ManimErrorWithoutStderr(stderr) == <<"Manim execution failed: ">>

\* run_manim_script's error_msg for a non-zero exit
ManimError(stderr) == <<"Manim execution failed: ", stderr>>

\* a variant of NoVideoError: the message of a render failure reused
NoVideoErrorAsRenderError == ManimError("")

\* error_msg of "if not video_files"
NoVideoError == <<"No video output was generated">>

\* a variant of FailJob: FAILED is written with the progress the row has
FailJobKeepingProgress(j, status_message, error_msg, next) ==
    /\ LET db == StatusStep(j, "failed", animations[job[j].animation_id].progress,
                            status_message)
       IN  /\ animations' = db.animations
           /\ conversations' = db.conversations
           /\ messages' =
                 IF ConversationExists(j, job[j].conversation_id)
                 THEN create_message(db.messages, j, job[j].conversation_id,
                          job[j].user_id,
                          <<"Failed to generate animation: ">> \o error_msg,
                          "ai", None)
                 ELSE db.messages
    /\ result' = [result EXCEPT ![j] =
          AfterFinally(Returned(FALSE, "", error_msg,
                                job[j].animation_id, job[j].conversation_id))]
    /\ jobDirs' = DirsAfterFinally(jobDirs, j)
    /\ pc' = [pc EXCEPT ![j] = next]

\* the job fails with error_msg after the renderer ran: the FAILED status,
\* the ai message, the return and the finally block
FailJob(j, status_message, error_msg, next) ==
    /\ LET db == StatusStep(j, "failed", 0, status_message)
       IN  /\ animations' = db.animations
           /\ conversations' = db.conversations
           /\ messages' =
                 IF ConversationExists(j, job[j].conversation_id)
                 THEN create_message(db.messages, j, job[j].conversation_id,
                          job[j].user_id,
                          <<"Failed to generate animation: ">> \o error_msg,
                          "ai", None)
                 ELSE db.messages
    /\ result' = [result EXCEPT ![j] =
          AfterFinally(Returned(FALSE, "", error_msg,
                                job[j].animation_id, job[j].conversation_id))]
    /\ jobDirs' = DirsAfterFinally(jobDirs, j)
    /\ pc' = [pc EXCEPT ![j] = next]

\* run_manim_script ends (the subprocess has exited, both streams are read):
\* on a non-zero exit the job fails; else the 80% status and artifact
\* discovery; when a file is found the copy starts by reading
\* settings.STATIC_DIR, which raises into the except block
RunManim(j, returncode, stderr, placement) ==
    /\ pc[j] = "run"
    /\ Unblocked(j)
    /\ IF returncode # 0
       THEN /\ FailJob(j, <<"Animation generation failed: ">> \o ManimError(stderr),
                       ManimError(stderr), AfterRenderFailure)
            /\ job' = [job EXCEPT ![j].stderr = stderr,
                                  ![j].error_msg = ManimError(stderr),
                                  ![j].path = "render_failed"]
       ELSE LET db == StatusStep(j, "processing", 80,
                                 <<"Rendering complete, processing video">>)
            IN  /\ animations' = db.animations
                /\ conversations' = db.conversations
                /\ IF video_files(placement) = {}
                   THEN /\ messages' = db.messages
                        /\ job' = [job EXCEPT
                              ![j].placement = placement,
                              ![j].error_msg = NoVideoError,
                              ![j].path = "artifact_missing"]
                        /\ pc' = [pc EXCEPT ![j] = "nofile"]
                        /\ UNCHANGED << result, jobDirs >>
                   ELSE IF HasSetting("STATIC_DIR")
                   THEN /\ messages' = db.messages
                        /\ job' = [job EXCEPT ![j].placement = placement,
                                              ![j].path = "artifact_found"]
                        /\ pc' = [pc EXCEPT ![j] = "copy"]
                        /\ UNCHANGED << result, jobDirs >>
                   ELSE LET out == ExceptHandler(db.messages, j,
                                       job[j].conversation_id, job[j].user_id,
                                       "AttributeError")
                        IN  /\ messages' = out.messages
                            /\ result' = [result EXCEPT ![j] = out.result]
                            /\ jobDirs' = DirsAfterFinally(jobDirs, j)
                            /\ job' = [job EXCEPT ![j].placement = placement,
                                                  ![j].exc = "AttributeError",
                                                  ![j].path = "artifact_found"]
                            /\ pc' = [pc EXCEPT ![j] = "route"]
    /\ UNCHANGED << apiConvs, response >>

\* "if not video_files": the job fails with "No video output was generated"
NoFile(j) ==
    /\ pc[j] = "nofile"
    /\ Unblocked(j)
    /\ FailJob(j, job[j].error_msg, job[j].error_msg, "route")
    /\ job' = [job EXCEPT ![j].placement = IdleJob.placement]
    /\ UNCHANGED << apiConvs, response >>

\* get_conversation_with_animations as session s evaluates it: a sequence
\* with the conversation and its animations, empty for None
get_conversation_with_animations(s, conversation_id, user_id) ==
    IF OwnedConversation(s, conversation_id, user_id) = {}
    THEN << >>
    ELSE LET c == CHOOSE x \in OwnedConversation(s, conversation_id, user_id) : TRUE
         IN  << [ id |-> c.id, user_id |-> c.user_id, title |-> c.title,
                  animations |->
                      { a \in DOMAIN animations :
                          /\ animations[a].conversation_id = conversation_id
                          /\ Visible(s, animations[a]) } ] >>

\* a variant of generate_animation_response: a failure is answered with the
\* route's own text
generate_animation_response_own_detail(res, conversation_data) ==
    IF res.kind = "returned" /\ res.success /\ conversation_data # << >>
    THEN [ status_code |-> 200, success |-> TRUE, video_url |-> res.video_url,
           message |-> "Animation generated successfully", version |-> 1,
           detail |-> << >> ]
    ELSE [ status_code |-> 500, success |-> FALSE, video_url |-> "",
           message |-> "", version |-> 0,
           detail |-> <<"Failed to generate animation">> ]

\* what generate-animation answers after the service call, on the call's
\* outcome and on conversation_data, which the route reads after a success:
\* the status code and the body's fields (detail for an HTTPException)
generate_animation_response(res, conversation_data) ==
    LET error(status_code, detail) ==
            [ status_code |-> status_code, success |-> FALSE, video_url |-> "",
              message |-> "", version |-> 0, detail |-> detail ]
    IN  IF res.kind = "raised"
        THEN error(500, <<"Error generating animation: ", res.exc>>)
        ELSE IF ~ res.success
        THEN error(500, IF res.error # << >> THEN res.error
                        ELSE <<"Failed to generate animation">>)
        ELSE IF conversation_data = << >>
        THEN error(500, <<"Error generating animation: ", "TypeError">>)
        ELSE IF res.animation_id = None
        THEN error(500, <<"Error generating animation: ", "ValidationError">>)
        ELSE [ status_code |-> 200, success |-> TRUE,
               video_url |-> res.video_url,
               message |-> "Animation generated successfully",
               version |-> IF res.animation_id \in conversation_data[1].animations
                           THEN animations[res.animation_id].version ELSE 1,
               detail |-> << >> ]

\* the route after the service call: commit and answer by the success flag,
\* or, when the call raised, roll back and answer 500
RouteFinish(j) ==
    /\ pc[j] = "route"
    /\ IF result[j].kind = "returned"
       THEN /\ conversations' = CommitConversations(conversations, j)
            /\ animations' = CommitAnimations(animations, j)
            /\ messages' = CommitMessages(messages, j)
            /\ response' = [response EXCEPT ![j] =
                  generate_animation_response(result[j],
                      get_conversation_with_animations(j,
                          result[j].conversation_id, job[j].user_id)).status_code]
       ELSE /\ conversations' = RollbackConversations(conversations, j)
            /\ animations' = RollbackAnimations(animations, j)
            /\ messages' = RollbackMessages(messages, j)
            /\ response' = [response EXCEPT ![j] = 500]
    /\ pc' = [pc EXCEPT ![j] = "done"]
    /\ job' = [job EXCEPT ![j] = IdleJob]
    /\ UNCHANGED << apiConvs, result, jobDirs >>

Next ==
    \/ \E u \in ApiUsers, t \in TitleInputs, p \in PromptInputs :
          StartNewConversation(u, t, p)
    \/ \E j \in Jobs, u \in Users, cid \in ConvIds \cup {None}, q \in Queries :
          RouteBegin(j, u, cid, q)
    \/ \E j \in Jobs : SaveAnimation(j)
    \/ \E j \in Jobs : Status10(j)
    \/ \E j \in Jobs, ok \in BOOLEAN, prev \in PrevCodes : Provider(j, ok, prev)
    \/ \E j \in Jobs : Status40(j)
    \/ \E j \in Jobs, rc \in {0, 1}, err \in ErrTexts, place \in Placements :
          RunManim(j, rc, err, place)
    \/ \E j \in Jobs : NoFile(j)
    \/ \E j \in Jobs : RouteFinish(j)

Spec == Init /\ [][Next]_vars

(***************************************************************************)
(* The conversation endpoints, served while jobs run.  A request of these  *)
(* endpoints takes a request number like a job does and uses pc, job and   *)
(* response the same way.  A statement that needs several row locks is     *)
(* taken to wait until it can have them all.                               *)
(***************************************************************************)

\* new_title of PATCH /api/conversations/{id}/rename
NewTitles == { <<"renamed">> }

SeedUserMessage ==
    [ conversation_id |-> SeedConvId, user_id |-> "u1",
      content |-> <<"draw", "a", "circle">>, type |-> "user",
      animation_id |-> None, pending |-> 0 ]
SeedAiMessage ==
    [ conversation_id |-> SeedConvId, user_id |-> "u1",
      content |-> <<"Animation generated successfully">>, type |-> "ai",
      animation_id |-> SeedAnimationId, pending |-> 0 ]

\* as Init, the rows of the seeded store with the two messages of their job
InitLedger ==
    /\ \E seeded \in BOOLEAN :
          /\ conversations = IF seeded THEN {SeedConversation} ELSE {}
          /\ animations = IF seeded THEN SeedAnimationId :> SeedAnimation ELSE << >>
          /\ messages = [c \in ConvIds |->
                IF seeded /\ c = SeedConvId
                THEN <<SeedUserMessage, SeedAiMessage>> ELSE << >>]
    /\ apiConvs = 0
    /\ pc = [j \in Jobs |-> "idle"]
    /\ job = [j \in Jobs |-> IdleJob]
    /\ result = [j \in Jobs |-> NoResult]
    /\ response = [j \in Jobs |-> 0]
    /\ jobDirs = {}

\* requests are numbered in their order of arrival and name a conversation
\* a client can have seen (see RouteBegin)
Arrives(j, cid) ==
    /\ pc[j] = "idle"
    /\ \A i \in Jobs : i < j => pc[i] # "idle"
    /\ cid \in NameableConversations
    /\ \A k \in 1..MaxConvs : cid = ApiConvId(k) => k <= j

\* GET /api/conversations/{conversation_id}
GetConversation(j, u, cid) ==
    /\ Arrives(j, cid)
    /\ response' = [response EXCEPT ![j] =
          IF get_conversation_with_animations(j, cid, u) = << >>
          THEN 404 ELSE 200]
    /\ pc' = [pc EXCEPT ![j] = "done"]
    /\ UNCHANGED << conversations, animations, messages, apiConvs, job,
                    result, jobDirs >>

\* a variant of rename_conversation: the select filters by id only
rename_conversation_any_owner(convs, s, conversation_id, user_id, new_title) ==
    LET found == { c \in convs : c.id = conversation_id /\ Visible(s, c) }
    IN  [ conversations |->
              { IF c \in found THEN [c EXCEPT !.title = new_title] ELSE c :
                  c \in convs },
          returns |-> IF found = {} THEN << >>
                      ELSE << [ id |-> conversation_id, user_id |-> user_id,
                                title |-> new_title ] >> ]

\* rename_conversation as session s runs it: the conversations after it
\* (the title set and flushed) and what it returns, empty for None
rename_conversation(convs, s, conversation_id, user_id, new_title) ==
    LET found == { c \in convs : c.id = conversation_id /\ c.user_id = user_id
                                  /\ Visible(s, c) }
    IN  [ conversations |->
              { IF c \in found THEN [c EXCEPT !.title = new_title] ELSE c :
                  c \in convs },
          returns |-> IF found = {} THEN << >>
                      ELSE << [ id |-> conversation_id, user_id |-> user_id,
                                title |-> new_title ] >> ]

\* the status rename_conversation_route answers when the service returned
\* None: the HTTPException(404) is raised inside the try block, whose only
\* handler is "except Exception", which rolls back and raises
\* HTTPException(500)
RenameNotFoundStatus == 500

\* PATCH /api/conversations/{conversation_id}/rename: rename_conversation,
\* then the commit.  The UPDATE waits for a session that holds the row
RenameConversation(j, u, cid, new_title) ==
    /\ Arrives(j, cid)
    /\ OwnedConversation(j, cid, u) # {} => ~ ConversationLocked(j, cid)
    /\ LET out == rename_conversation(conversations, j, cid, u, new_title)
       IN  /\ conversations' = out.conversations
           /\ response' = [response EXCEPT ![j] =
                 IF out.returns = << >> THEN RenameNotFoundStatus ELSE 200]
           /\ job' = [job EXCEPT ![j].path =
                 IF out.returns = << >> THEN "rename_not_found" ELSE @]
    /\ pc' = [pc EXCEPT ![j] = "done"]
    /\ UNCHANGED << animations, messages, apiConvs, result, jobDirs >>

\* delete_conversation: the tables in the order of its DELETE statements
DeleteOrderAnimationsFirst == << "animations", "messages", "conversations" >>
DeleteOrder == << "messages", "animations", "conversations" >>

DeleteRow(s, row) == IF row.pending = 0 THEN [row EXCEPT !.pending = -s] ELSE row

\* the rows of a conversation that ON DELETE CASCADE removes with it
\* (messages.conversation_id, animations.conversation_id): none is kept
Cascade(s, conversation_id) ==
    [ animations |->
          [a \in DOMAIN animations |->
              IF animations[a].conversation_id = conversation_id
              THEN DeleteRow(s, animations[a]) ELSE animations[a]],
      messages |->
          [messages EXCEPT ![conversation_id] =
              [i \in DOMAIN @ |-> DeleteRow(s, @[i])]] ]

\* a DELETE of session s on a table waits: a row it deletes is held by
\* another session's DELETE, or (for the conversation row) another session
\* has inserted, and not committed, a row that references it
DeleteWaits(table, s, conversation_id) ==
    LET heldMessage ==
            \E i \in DOMAIN messages[conversation_id] :
                DeletePendingByOther(s, messages[conversation_id][i])
        heldAnimation ==
            \E a \in DOMAIN animations :
                /\ animations[a].conversation_id = conversation_id
                /\ DeletePendingByOther(s, animations[a])
        referenced ==
            \/ \E i \in DOMAIN messages[conversation_id] :
                  /\ messages[conversation_id][i].pending > 0
                  /\ messages[conversation_id][i].pending # s
            \/ \E a \in DOMAIN animations :
                  /\ animations[a].conversation_id = conversation_id
                  /\ animations[a].pending > 0
                  /\ animations[a].pending # s
    IN  CASE table = "messages" -> heldMessage
          [] table = "animations" -> heldAnimation
          [] table = "conversations" ->
                \/ ConversationLocked(s, conversation_id)
                \/ heldMessage \/ heldAnimation \/ referenced

\* one "await db.execute(delete(...))" of delete_conversation in session s:
\* the three tables after it.  messages.animation_id is SET NULL when its
\* animation is deleted; the messages of the conversation are deleted
\* before its animations and no other message references them, so the rule
\* has no row to act on
delete_from(table, s, conversation_id, user_id) ==
    CASE table = "messages" ->
            [ conversations |-> conversations, animations |-> animations,
              messages |-> [messages EXCEPT ![conversation_id] =
                               [i \in DOMAIN @ |-> DeleteRow(s, @[i])]] ]
      [] table = "animations" ->
            [ conversations |-> conversations, messages |-> messages,
              animations |->
                  [a \in DOMAIN animations |->
                      IF animations[a].conversation_id = conversation_id
                      THEN DeleteRow(s, animations[a]) ELSE animations[a]] ]
      [] table = "conversations" ->
            IF OwnedConversation(s, conversation_id, user_id) = {}
            THEN [ conversations |-> conversations, animations |-> animations,
                   messages |-> messages ]
            ELSE [ conversations |->
                       { IF c.id = conversation_id /\ c.user_id = user_id
                         THEN DeleteRow(s, c) ELSE c : c \in conversations },
                   animations |-> Cascade(s, conversation_id).animations,
                   messages |-> Cascade(s, conversation_id).messages ]

\* DELETE /api/conversations/{conversation_id}, delete_conversation's select:
\* False, answered 404, when the actor owns no such conversation
DeleteBegin(j, u, cid) ==
    /\ Arrives(j, cid)
    /\ IF OwnedConversation(j, cid, u) = {}
       THEN /\ response' = [response EXCEPT ![j] = 404]
            /\ pc' = [pc EXCEPT ![j] = "done"]
            /\ job' = [job EXCEPT ![j].path = "delete_not_found"]
       ELSE /\ response' = response
            /\ pc' = [pc EXCEPT ![j] = "delete1"]
            /\ job' = [job EXCEPT ![j] =
                  [IdleJob EXCEPT !.user_id = u, !.conversation_id = cid,
                                  !.path = "delete"]]
    /\ UNCHANGED << conversations, animations, messages, apiConvs, result,
                    jobDirs >>

DeletePc(k) == CASE k = 1 -> "delete1" [] k = 2 -> "delete2"
                 [] k = 3 -> "delete3" [] k = 4 -> "delete_commit"

\* the k-th DELETE statement of delete_conversation
DeleteStatement(j, k) ==
    /\ pc[j] = DeletePc(k)
    /\ ~ DeleteWaits(DeleteOrder[k], j, job[j].conversation_id)
    /\ LET db == delete_from(DeleteOrder[k], j, job[j].conversation_id,
                             job[j].user_id)
       IN  /\ conversations' = db.conversations
           /\ animations' = db.animations
           /\ messages' = db.messages
    /\ pc' = [pc EXCEPT ![j] = DeletePc(k + 1)]
    /\ UNCHANGED << apiConvs, job, result, response, jobDirs >>

\* delete_conversation returned True: the route commits and answers 204
DeleteCommit(j) ==
    /\ pc[j] = "delete_commit"
    /\ conversations' = CommitConversations(conversations, j)
    /\ animations' = CommitAnimations(animations, j)
    /\ messages' = CommitMessages(messages, j)
    /\ response' = [response EXCEPT ![j] = 204]
    /\ pc' = [pc EXCEPT ![j] = "done"]
    /\ job' = [job EXCEPT ![j] = IdleJob]
    /\ UNCHANGED << apiConvs, result, jobDirs >>

\* JobNext: the steps of the generate-animation requests
JobNext ==
    \/ \E j \in Jobs, u \in Users, cid \in ConvIds \cup {None}, q \in Queries :
          RouteBegin(j, u, cid, q)
    \/ \E j \in Jobs : SaveAnimation(j)
    \/ \E j \in Jobs : Status10(j)
    \/ \E j \in Jobs, ok \in BOOLEAN, prev \in PrevCodes : Provider(j, ok, prev)
    \/ \E j \in Jobs : Status40(j)
    \/ \E j \in Jobs, rc \in {0, 1}, err \in ErrTexts, place \in Placements :
          RunManim(j, rc, err, place)
    \/ \E j \in Jobs : NoFile(j)
    \/ \E j \in Jobs : RouteFinish(j)

\* the conversations are the seeded one and those the jobs open; one opened
\* through POST /api/conversations holds no row and is renamed and deleted
\* like the seeded one after its rows are deleted
LedgerNext ==
    \/ JobNext
    \/ \E j \in Jobs, u \in Users, cid \in ConvIds : GetConversation(j, u, cid)
    \/ \E j \in Jobs, u \in Users, cid \in ConvIds, t \in NewTitles :
          RenameConversation(j, u, cid, t)
    \/ \E j \in Jobs, u \in Users, cid \in ConvIds : DeleteBegin(j, u, cid)
    \/ \E j \in Jobs, k \in 1..3 : DeleteStatement(j, k)
    \/ \E j \in Jobs : DeleteCommit(j)

SpecLedger == InitLedger /\ [][LedgerNext]_vars

(***************************************************************************)
(* get_or_create_conversation by itself.  generate_animation_from_query,   *)
(* its one caller, always passes the id the route gives it, so the branch  *)
(* that creates a conversation is reached by no request; here the function *)
(* is called in the session of a request j with every kind of argument,    *)
(* and the session is then committed or rolled back.                       *)
(***************************************************************************)

\* the title argument: None (the empty text) or a title
TitleArgs == { << >>, <<"my", "title">> }

\* a variant of get_or_create_conversation: the select filters by id only
get_or_create_conversation_any_owner(convs, s, conversation_id, user_id, title, new_id) ==
    IF conversation_id # None
    THEN LET found == { c \in convs : c.id = conversation_id /\ Visible(s, c) }
         IN  [ conversations |-> convs,
               raises |-> IF found = {} THEN "ValueError" ELSE "",
               returns |-> IF found = {} THEN None ELSE conversation_id ]
    ELSE [ conversations |-> convs \cup
               { [ id |-> new_id, user_id |-> user_id,
                   title |-> IF title = << >> THEN <<"Conversation", "uuid8">>
                             ELSE title,
                   pending |-> s ] },
           raises |-> "", returns |-> new_id ]

\* get_or_create_conversation in session s: the conversations after it, the
\* exception it raises ("" for none) and the id of the conversation it
\* returns; new_id is the uuid the new row gets
get_or_create_conversation(convs, s, conversation_id, user_id, title, new_id) ==
    IF conversation_id # None
    THEN LET found == { c \in convs : /\ c.id = conversation_id
                                       /\ c.user_id = user_id
                                       /\ Visible(s, c) }
         IN  [ conversations |-> convs,
               raises |-> IF found = {} THEN "ValueError" ELSE "",
               returns |-> IF found = {} THEN None ELSE conversation_id ]
    ELSE [ conversations |-> convs \cup
               { [ id |-> new_id, user_id |-> user_id,
                   title |-> IF title = << >> THEN <<"Conversation", "uuid8">>
                             ELSE title,
                   pending |-> s ] },
           raises |-> "", returns |-> new_id ]

\* one call, in the session of request j; the new row's uuid is modelled by
\* the request's number, as in RouteBegin
GetOrCreateCall(j, u, cid, title) ==
    /\ pc[j] = "idle"
    /\ \A i \in Jobs : i < j => pc[i] # "idle"
    /\ cid \in { c.id : c \in conversations } \cup { UnknownConvId, None }
    /\ LET out == get_or_create_conversation(conversations, j, cid, u, title, j)
       IN  /\ conversations' = out.conversations
           /\ job' = [job EXCEPT ![j] =
                 [IdleJob EXCEPT !.user_id = u, !.conversation_id = out.returns,
                                 !.exc = out.raises]]
    /\ pc' = [pc EXCEPT ![j] = "called"]
    /\ UNCHANGED << animations, messages, apiConvs, result, response, jobDirs >>

\* the session ends: its caller commits, or rolls back
CloseSession(j, commit) ==
    /\ pc[j] = "called"
    /\ conversations' = IF commit THEN CommitConversations(conversations, j)
                        ELSE RollbackConversations(conversations, j)
    /\ pc' = [pc EXCEPT ![j] = "done"]
    /\ UNCHANGED << animations, messages, apiConvs, job, result, response,
                    jobDirs >>

GetOrCreateNext ==
    \/ \E j \in Jobs, u \in Users, cid \in ConvIds \cup {None}, t \in TitleArgs :
          GetOrCreateCall(j, u, cid, t)
    \/ \E j \in Jobs, commit \in BOOLEAN : CloseSession(j, commit)

SpecGetOrCreate == Init /\ [][GetOrCreateNext]_vars

(***************************************************************************)
(* Revisions: the jobs, each request carrying as previous_code the         *)
(* generated source of version 1 of the conversation it names, when the    *)
(* conversation has one.                                                   *)
(***************************************************************************)

\* the generated_code of the version-1 animations of a conversation that
\* the client of request s can have read
VersionOneSources(s, conversation_id) ==
    { animations[a].generated_code :
        a \in { x \in DOMAIN animations :
                  /\ animations[x].conversation_id = conversation_id
                  /\ animations[x].version = 1
                  /\ Visible(s, animations[x]) } }

\* request.previous_code
PreviousCodes(j) ==
    IF VersionOneSources(j, job[j].conversation_id) = {}
    THEN PrevCodes
    ELSE VersionOneSources(j, job[j].conversation_id)

RevisionNext ==
    \/ \E j \in Jobs, u \in Users, cid \in ConvIds \cup {None}, q \in Queries :
          RouteBegin(j, u, cid, q)
    \/ \E j \in Jobs : SaveAnimation(j)
    \/ \E j \in Jobs : Status10(j)
    \/ \E j \in Jobs, ok \in BOOLEAN :
          \E prev \in PreviousCodes(j) : Provider(j, ok, prev)
    \/ \E j \in Jobs : Status40(j)
    \/ \E j \in Jobs, rc \in {0, 1}, err \in ErrTexts, place \in Placements :
          RunManim(j, rc, err, place)
    \/ \E j \in Jobs : NoFile(j)
    \/ \E j \in Jobs : RouteFinish(j)

SpecRevision == Init /\ [][RevisionNext]_vars

(***************************************************************************)
(* Titles: conversations opened through POST /api/conversations, renamed,  *)
(* and made by get_or_create_conversation, with texts that are empty, only *)
(* whitespace, or words; one actor, every session committed.               *)
(***************************************************************************)

\* a title, an initial prompt or a new title: "", "   ", "my title"
TitleTexts == { << >>, << " " >>, << "my", "title" >> }

TitlesNext ==
    \/ \E u \in ApiUsers, t \in TitleTexts, p \in TitleTexts :
          StartNewConversation(u, t, p)
    \/ \E j \in Jobs, u \in ApiUsers, cid \in ConvIds, t \in TitleTexts :
          RenameConversation(j, u, cid, t)
    \/ \E j \in Jobs, u \in ApiUsers, t \in TitleTexts :
          GetOrCreateCall(j, u, None, t)
    \/ \E j \in Jobs : CloseSession(j, TRUE)

SpecTitles == Init /\ [][TitlesNext]_vars

(***************************************************************************)
(* run_manim_script by itself: the command is built, the subprocess runs,  *)
(* writes to its two pipes and exits, and "await process.communicate()"    *)
(* returns.  In the jobs above the whole call is the one step RunManim;    *)
(* here job[j] holds the locals and the subprocess of one call, made by    *)
(* any one request j.                                                      *)
(***************************************************************************)

\* the chunks a subprocess writes to one pipe, at most
MaxChunks == 2

\* QualityOption
Qualities == { "low", "medium", "high" }

\* what a caller may pass as quality: a QualityOption, another string, None
QualityArgs == Qualities \cup { "ultra", "None" }

QUALITY_FLAG_MAP == ("low" :> "-ql") @@ ("medium" :> "-qm") @@ ("high" :> "-qh")

\* a variant of QualityFlag: the default is the flag of the high tier
QualityFlagDefaultHigh(quality) ==
    IF quality \in DOMAIN QUALITY_FLAG_MAP THEN QUALITY_FLAG_MAP[quality]
    ELSE "-qh"

\* QUALITY_FLAG_MAP.get(quality, "-ql")
QualityFlag(quality) ==
    IF quality \in DOMAIN QUALITY_FLAG_MAP THEN QUALITY_FLAG_MAP[quality]
    ELSE "-ql"

\* what the subprocess may write, a chunk at a time: text encoded in UTF-8,
\* or bytes that are not valid UTF-8
Chunks == { "chunk", "0xff" }

\* bytes.decode() returns the text, unless it raises UnicodeDecodeError
Decodes(bytes) == \A i \in 1..Len(bytes) : bytes[i] # "0xff"

\* run_manim_script after communicate() has returned, on process.returncode
\* (a sequence of at most one element: empty for None) and the two captured
\* streams: the message is formatted with stderr.decode(), both branches
\* log stdout.decode(), and then the branch returns
run_manim_script_returns(returncode, stdout, stderr) ==
    IF returncode # << 0 >>
    THEN IF Decodes(stderr) /\ Decodes(stdout)
         THEN [ returns |-> << [ success |-> FALSE,
                                 error_msg |-> <<"Manim execution failed: ">>
                                                  \o stderr ] >>,
                raises |-> << >> ]
         ELSE [ returns |-> << >>, raises |-> << "UnicodeDecodeError" >> ]
    ELSE IF Decodes(stdout)
         THEN [ returns |-> << [ success |-> TRUE, error_msg |-> << >> ] >>,
                raises |-> << >> ]
         ELSE [ returns |-> << >>, raises |-> << "UnicodeDecodeError" >> ]

\* the command is built and the subprocess created
StartRenderer(j, quality) ==
    /\ \A i \in Jobs : pc[i] = "idle"
    /\ job' = [job EXCEPT ![j] =
          [ quality |-> quality,
            cmd |-> << "python", "-m", "manim", "script.py",
                       "GeneratedManimScene", QualityFlag(quality),
                       "--format", "mp4", "--media_dir", "media_output" >>,
            state |-> "running", returncode |-> << >>,
            written |-> [stdout |-> << >>, stderr |-> << >>],
            captured |-> [stdout |-> << >>, stderr |-> << >>],
            returns |-> << >>, raises |-> << >> ]]
    /\ pc' = [pc EXCEPT ![j] = "communicate"]
    /\ UNCHANGED << conversations, animations, messages, apiConvs, result,
                    response, jobDirs >>

\* the subprocess writes a chunk to stdout or to stderr
RendererWrites(j, stream, chunk) ==
    /\ pc[j] = "communicate"
    /\ job[j].state = "running"
    /\ Len(job[j].written[stream]) < MaxChunks
    /\ job' = [job EXCEPT ![j].written[stream] = Append(@, chunk)]
    /\ UNCHANGED << conversations, animations, messages, apiConvs, pc, result,
                    response, jobDirs >>

\* the subprocess exits, which closes its ends of the pipes
RendererExits(j, rc) ==
    /\ pc[j] = "communicate"
    /\ job[j].state = "running"
    /\ job' = [job EXCEPT ![j].state = "exited", ![j].returncode = << rc >>]
    /\ UNCHANGED << conversations, animations, messages, apiConvs, pc, result,
                    response, jobDirs >>

\* "stdout, stderr = await process.communicate()" returns, when both pipes
\* are at end of file and the subprocess has exited; then the return code
\* decides what the call returns
Communicate(j) ==
    /\ pc[j] = "communicate"
    /\ job[j].state = "exited"
    /\ job' = [job EXCEPT
          ![j].captured = job[j].written,
          ![j].returns = run_manim_script_returns(job[j].returncode,
                              job[j].written.stdout, job[j].written.stderr).returns,
          ![j].raises = run_manim_script_returns(job[j].returncode,
                              job[j].written.stdout, job[j].written.stderr).raises]
    /\ pc' = [pc EXCEPT ![j] = "done"]
    /\ UNCHANGED << conversations, animations, messages, apiConvs, result,
                    response, jobDirs >>

RendererNext ==
    \/ \E j \in Jobs, quality \in QualityArgs : StartRenderer(j, quality)
    \/ \E j \in Jobs, stream \in {"stdout", "stderr"}, chunk \in Chunks :
          RendererWrites(j, stream, chunk)
    \/ \E j \in Jobs, rc \in {0, 1} : RendererExits(j, rc)
    \/ \E j \in Jobs : Communicate(j)

SpecRenderer == Init /\ [][RendererNext]_vars

(***************************************************************************)
(* The generate-animation route by itself, as tests/api/animation_api.py   *)
(* runs it: generate_animation_from_query is patched, and what the patch   *)
(* delivers is one of the tuples the function's return statements build.   *)
(* job[j] keeps the body of the answer.                                    *)
(***************************************************************************)

\* video_url of the service's "return True, video_url, ..."
VideoUrls == { "/manim_videos/a.mp4", "/manim_videos/b.mp4" }

\* error_msg of the service's three "return False, ..." statements
ServiceErrors ==
    { ManimError(e) : e \in ErrTexts } \cup { NoVideoError }
       \cup { <<"Error generating animation: ", "ValueError">> }

\* the route up to the service call: a conversation is created and flushed
\* when the request names none
RouteCallsService(j, u, cid, q) ==
    /\ pc[j] = "idle"
    /\ \A i \in Jobs : i < j => pc[i] # "idle"
    /\ cid \in NameableConversations \cup {None}
    /\ \A k \in 1..MaxConvs : cid = ApiConvId(k) => k <= j
    /\ conversations' =
          IF cid = None
          THEN conversations \cup
                  { [ id |-> j, user_id |-> u,
                      title |-> create_conversation_title(<<>>, q),
                      pending |-> j ] }
          ELSE conversations
    /\ job' = [job EXCEPT ![j] =
          [IdleJob EXCEPT !.user_id = u, !.query = q,
                          !.conversation_id = IF cid = None THEN j ELSE cid]]
    /\ pc' = [pc EXCEPT ![j] = "service"]
    /\ UNCHANGED << animations, messages, apiConvs, result, response, jobDirs >>

\* the patched service returns: success for a conversation of the user, as
\* the function gets past get_or_create_conversation for no other, or one
\* of the failures; the except block's return carries no animation id
ServiceReports(j, success, video_url, error_msg) ==
    /\ pc[j] = "service"
    /\ success =>
          OwnedConversation(j, job[j].conversation_id, job[j].user_id) # {}
    /\ result' = [result EXCEPT ![j] =
          IF success
          THEN Returned(TRUE, video_url, << >>, j, job[j].conversation_id)
          ELSE Returned(FALSE, "", error_msg,
                        IF error_msg[1] = "Error generating animation: "
                        THEN None ELSE j,
                        job[j].conversation_id)]
    /\ pc' = [pc EXCEPT ![j] = "route"]
    /\ UNCHANGED << conversations, animations, messages, apiConvs, job,
                    response, jobDirs >>

\* the patched service raises
ServiceRaises(j, exc) ==
    /\ pc[j] = "service"
    /\ result' = [result EXCEPT ![j] = Raised(exc)]
    /\ pc' = [pc EXCEPT ![j] = "route"]
    /\ UNCHANGED << conversations, animations, messages, apiConvs, job,
                    response, jobDirs >>

\* the route after the service call, as RouteFinish, with the answer's body
\* kept
RouteAnswers(j) ==
    /\ pc[j] = "route"
    /\ IF result[j].kind = "returned"
       THEN /\ conversations' = CommitConversations(conversations, j)
            /\ animations' = CommitAnimations(animations, j)
            /\ messages' = CommitMessages(messages, j)
       ELSE /\ conversations' = RollbackConversations(conversations, j)
            /\ animations' = RollbackAnimations(animations, j)
            /\ messages' = RollbackMessages(messages, j)
    /\ LET answer == generate_animation_response(result[j],
                         get_conversation_with_animations(j,
                             job[j].conversation_id, job[j].user_id))
       IN  /\ response' = [response EXCEPT ![j] = answer.status_code]
           /\ job' = [job EXCEPT ![j] = answer]
    /\ pc' = [pc EXCEPT ![j] = "done"]
    /\ UNCHANGED << apiConvs, result, jobDirs >>

RouteNext ==
    \/ \E j \in Jobs, u \in Users, cid \in ConvIds \cup {None}, q \in Queries :
          RouteCallsService(j, u, cid, q)
    \/ \E j \in Jobs, success \in BOOLEAN, video_url \in VideoUrls,
          error_msg \in ServiceErrors :
          ServiceReports(j, success, video_url, error_msg)
    \/ \E j \in Jobs : ServiceRaises(j, "AttributeError")
    \/ \E j \in Jobs : RouteAnswers(j)

SpecRoute == Init /\ [][RouteNext]_vars

(***************************************************************************)
(* POST /api/messages, served while jobs run.  The request's fields go to  *)
(* create_message as they are; the table's foreign keys are the only check *)
(* on them.                                                                *)
(***************************************************************************)

\* content of a CreateMessageRequest
MessageContents == { <<"hello">> }

\* type of a CreateMessageRequest
MessageTypes == { "user", "ai" }

\* create_message_route: the row is added and flushed, then committed and
\* answered 201; a flush that fails on a foreign key is answered 500 after
\* the rollback.  An insert waits while a row it refers to is being deleted
CreateMessageRoute(j, u, cid, content, type, animation_id) ==
    /\ Arrives(j, cid)
    /\ ~ ConversationLocked(j, cid)
    /\ ~ AnimationLocked(j, animation_id)
    /\ LET fk == /\ ConversationExists(j, cid)
                 /\ \/ animation_id = None
                    \/ /\ animation_id \in DOMAIN animations
                       /\ Visible(j, animations[animation_id])
       IN  /\ messages' =
                 IF fk
                 THEN CommitMessages(create_message(messages, j, cid, u, content,
                                                    type, animation_id), j)
                 ELSE messages
           /\ response' = [response EXCEPT ![j] = IF fk THEN 201 ELSE 500]
    /\ pc' = [pc EXCEPT ![j] = "done"]
    /\ UNCHANGED << conversations, animations, apiConvs, job, result, jobDirs >>

MessagesNext ==
    \/ JobNext
    \/ \E j \in Jobs, u \in ApiUsers, cid \in ConvIds, content \in MessageContents,
          type \in MessageTypes, animation_id \in Jobs \cup {SeedAnimationId, None} :
          CreateMessageRoute(j, u, cid, content, type, animation_id)

SpecMessages == InitLedger /\ [][MessagesNext]_vars

(***************************************************************************)
(* generate_conversation_title on prompts of every shape, through its two  *)
(* callers' calls of create_conversation: POST /api/conversations with an  *)
(* initial prompt and no title, and generate-animation without a           *)
(* conversation id, whose query is the prompt.                             *)
(***************************************************************************)

\* prompts: three words with whitespace before, after and a run of it
\* between; two words, the first in mixed case; five words; seven words
\* with whitespace around; whitespace only; one word that starts upper-case
PromptTexts ==
    { << " ", "draw", " ", "a", "circle", " " >>,
      << "mIXED", "case" >>,
      << "draw", "a", "triangle", "into", "square" >>,
      << " ", "draw", "a", " ", "triangle", "turning", "into", "a", "square" >>,
      << " " >>,
      << "Circle" >> }

PromptsNext ==
    \/ \E u \in ApiUsers, p \in PromptTexts : StartNewConversation(u, << >>, p)
    \/ \E j \in Jobs, u \in ApiUsers, q \in PromptTexts : RouteBegin(j, u, None, q)
    \/ \E j \in Jobs : SaveAnimation(j)
    \/ \E j \in Jobs : RouteFinish(j)

SpecPrompts == Init /\ [][PromptsNext]_vars

\* ---------------------------------------------------------------- readers
\* the rows a concurrent reader (another session) can see of a conversation
CommittedAnimationsOf(conversation_id) ==
    { a \in DOMAIN animations :
        /\ animations[a].conversation_id = conversation_id
        /\ IsCommitted(animations[a]) }

\* a session of its own with nothing flushed: it reads the committed rows
ReaderSession == 0

\* get_animation_status as session s runs it: no response (None) when no
\* row has that id and that user, else the row's status, progress and status
\* message, with the video URL only when the status is "completed".  An
\* optional value is a sequence of at most one element
get_animation_status(s, animation_id, user_id) ==
    IF /\ animation_id \in DOMAIN animations
       /\ animations[animation_id].user_id = user_id
       /\ Visible(s, animations[animation_id])
    THEN LET animation == animations[animation_id]
         IN  << [ id |-> animation_id,
                  status |-> animation.status,
                  progress |-> animation.progress,
                  status_message |-> animation.status_message,
                  video_url |-> IF animation.status = "completed"
                                THEN << animation.video_url >> ELSE << >> ] >>
    ELSE << >>

\* a variant of SortedByCreatedAt: sorted(..., reverse=True)
RECURSIVE SortedByCreatedAtDescending(_)
SortedByCreatedAtDescending(S) ==
    IF S = {} THEN << >>
    ELSE LET first == CHOOSE x \in S : \A y \in S : x.created_at >= y.created_at
         IN  << first >> \o SortedByCreatedAtDescending(S \ {first})

\* sorted(rows, key=lambda x: x.created_at): the rows of the collection S, in
\* a sequence
RECURSIVE SortedByCreatedAt(_)
SortedByCreatedAt(S) ==
    IF S = {} THEN << >>
    ELSE LET first == CHOOSE x \in S : \A y \in S : x.created_at <= y.created_at
         IN  << first >> \o SortedByCreatedAt(S \ {first})

\* selectinload(Conversation.animations) in session s: the collection the
\* relationship loads, in no order
LoadedAnimations(s, conversation_id) ==
    { [ id |-> a, query |-> animations[a].query,
        video_url |-> animations[a].video_url,
        version |-> animations[a].version,
        success |-> animations[a].success,
        created_at |-> animations[a].created_at,
        status |-> animations[a].status,
        progress |-> animations[a].progress,
        status_message |-> animations[a].status_message ] :
      a \in { x \in DOMAIN animations :
                /\ animations[x].conversation_id = conversation_id
                /\ Visible(s, animations[x]) } }

\* selectinload(Conversation.messages) in session s; a message's created_at
\* is modelled by its place among the messages of its conversation
LoadedMessages(s, conversation_id) ==
    { [ conversation_id |-> messages[conversation_id][i].conversation_id,
        content |-> messages[conversation_id][i].content,
        type |-> messages[conversation_id][i].type,
        animation_id |-> messages[conversation_id][i].animation_id,
        created_at |-> i ] :
      i \in { x \in DOMAIN messages[conversation_id] :
                Visible(s, messages[conversation_id][x]) } }

\* get_conversation_with_messages_and_animations as session s evaluates it:
\* a sequence with the conversation, its animations and its messages, empty
\* for None
get_conversation_with_messages_and_animations(s, conversation_id, user_id) ==
    IF OwnedConversation(s, conversation_id, user_id) = {}
    THEN << >>
    ELSE LET c == CHOOSE x \in OwnedConversation(s, conversation_id, user_id) : TRUE
         IN  << [ id |-> c.id, user_id |-> c.user_id, title |-> c.title,
                  animations |->
                      SortedByCreatedAt(LoadedAnimations(s, conversation_id)),
                  messages |->
                      SortedByCreatedAt(LoadedMessages(s, conversation_id)) ] >>

\* generate_animation_from_query has ended for request j and the route has
\* not yet acted on how it ended
JobEnded(j) == pc[j] = "route"

Last(seq) == seq[Len(seq)]

\* -------------------------------------------------------------- properties

\* C1: the versions of the N animations accepted into one conversation are
\* exactly 1..N, no duplicates and no gaps, also when the save_animation
\* calls of two jobs interleave.
C1_VersionsAreOneToN ==
    \A c \in ConvIds :
        { animations[a].version : a \in CommittedAnimationsOf(c) }
            = 1..Cardinality(CommittedAnimationsOf(c))

\* C2: once an animation is COMPLETED or FAILED, no later step (no later
\* update_animation_status call of any job) changes its status, progress or
\* status message.
C2_TerminalStatesAbsorbing ==
    [][ \A a \in DOMAIN animations :
          animations[a].status \in {"completed", "failed"} =>
             /\ a \in DOMAIN animations'
             /\ animations'[a].status = animations[a].status
             /\ animations'[a].progress = animations[a].progress
             /\ animations'[a].status_message = animations[a].status_message
      ]_vars

\* C2's case: the first request's animation is FAILED and its job is over,
\* while the second request's job has gone on writing statuses
C2_FailedWhileOthersUpdate ==
    /\ pc[1] = "done"
    /\ 1 \in DOMAIN animations /\ animations[1].status = "failed"
    /\ 2 \in DOMAIN animations /\ animations[2].progress >= 40

\* C3: when generate_animation_from_query has ended, on whatever branch, the
\* job directory it made is gone.
C3_JobDirectoryReleased ==
    \A j \in Jobs : pc[j] \in {"route", "done"} => j \notin jobDirs

\* C4: a job that ended by an exception after its animation row was created
\* has set the animation FAILED, and no ended job leaves its animation in
\* PROCESSING.
C4_FailedBeforeExceptionLeaves ==
    \A j \in Jobs :
        /\ ( JobEnded(j) /\ job[j].animation_id # None /\ job[j].exc # "" )
              => animations[job[j].animation_id].status = "failed"
        /\ ( pc[j] \in {"route", "done"} /\ j \in DOMAIN animations )
              => animations[j].status # "processing"

\* C5: when the code provider raises, the job ends with the animation FAILED
\* and an ai message describing the failure in the conversation, and the
\* renderer has not run (nothing of it is recorded).
C5_ProviderFailureFailsJob ==
    \A j \in Jobs :
        ( JobEnded(j) /\ job[j].path = "provider_error" ) =>
            /\ animations[job[j].animation_id].status = "failed"
            /\ \E i \in DOMAIN MessagesOf(j, job[j].conversation_id) :
                  LET m == MessagesOf(j, job[j].conversation_id)[i]
                  IN  m.type = "ai" /\ m.pending = j
                      /\ Contains(m.content, job[j].exc)
            /\ job[j].stderr = "" /\ job[j].placement = IdleJob.placement

\* C7: on every failure path on which they are allocated (render failure,
\* artifact missing, caught exception) generate_animation_from_query returns
\* the animation id and the conversation id.
C7_IdsReturnedOnFailure ==
    \A j \in Jobs :
        ( JobEnded(j) /\ job[j].animation_id # None ) =>
            /\ result[j].kind = "returned"
            /\ result[j].animation_id = job[j].animation_id
            /\ result[j].conversation_id = job[j].conversation_id

C9_SuccessOutcome ==
    \A j \in Jobs :
        ( JobEnded(j) /\ job[j].path = "artifact_found" ) =>
            LET a == animations[job[j].animation_id]
                thread == MessagesOf(j, job[j].conversation_id)
            IN  /\ a.status = "completed"
                /\ a.progress = 100
                /\ a.success = TRUE
                /\ a.video_url # ""
                /\ a.generated_code = job[j].generated_code
                /\ \E i \in DOMAIN thread :
                      /\ thread[i].type = "ai" /\ thread[i].pending = j
                      /\ thread[i].animation_id = job[j].animation_id

\* C10: after a renderer exit of 0, artifact discovery comes up empty only
\* when there is no mp4 anywhere under the output directory.
C10_DiscoveryFindsAnyPlacement ==
    \A j \in Jobs : pc[j] = "nofile" => job[j].placement = "none"

\* what the renderer may write to stderr, for comparing messages: ErrTexts,
\* nothing, and the very text of the artifact-missing error
StderrTexts == ErrTexts \cup {"", "No video output was generated"}

StatusTransitions ==
    { <<"pending", "processing">>, <<"processing", "processing">>,
      <<"processing", "completed">>, <<"processing", "failed">> }

\* C12: every animation is created PENDING with progress 0, and every change
\* of its status is PENDING->PROCESSING, PROCESSING->PROCESSING,
\* PROCESSING->COMPLETED or PROCESSING->FAILED (hence none is COMPLETED or
\* FAILED without having been PROCESSING).
C12_StatusTransitions ==
    [][ \A a \in DOMAIN animations' :
          IF a \in DOMAIN animations
          THEN \/ animations'[a].status = animations[a].status
               \/ << animations[a].status, animations'[a].status >>
                     \in StatusTransitions
          ELSE /\ animations'[a].status = "pending"
               /\ animations'[a].progress = 0
      ]_vars

\* C12's case: an animation created by a request has gone all the way to a
\* terminal status
C12_JobAnimationTerminal ==
    \E j \in Jobs :
        /\ j \in DOMAIN animations
        /\ animations[j].status \in {"completed", "failed"}
        /\ animations[j].pending = 0

\* C13: the progress of every animation is within [0, 100] in every state,
\* and from one state to the next the progress of an animation that is and
\* stays PROCESSING does not decrease.
C13_ProgressMonotoneInRange ==
    /\ [] ( \A a \in DOMAIN animations :
               animations[a].progress >= 0 /\ animations[a].progress <= 100 )
    /\ [][ \A a \in DOMAIN animations :
             ( /\ a \in DOMAIN animations'
               /\ animations[a].status = "processing"
               /\ animations'[a].status = "processing" )
             => animations'[a].progress >= animations[a].progress
         ]_vars

\* C13's case: a request's animation is PROCESSING after several updates
C13_ProcessingAfterUpdates ==
    \E j \in Jobs :
        /\ j \in DOMAIN animations
        /\ animations[j].status = "processing"
        /\ animations[j].progress = 80

\* C14: every animation whose status is FAILED has progress 0 and a
\* non-empty status message.
C14_FailedHasZeroProgressAndMessage ==
    \A a \in DOMAIN animations :
        animations[a].status = "failed" =>
            /\ animations[a].progress = 0
            /\ ~ IsEmptyText(animations[a].status_message)

\* C14's case: animations FAILED by a render failure and for want of an
\* output file are both in the store
C14_BothKindsOfFailure ==
    /\ \E a \in DOMAIN animations :
          /\ animations[a].status = "failed"
          /\ animations[a].status_message = NoVideoError
    /\ \E a \in DOMAIN animations :
          /\ animations[a].status = "failed"
          /\ animations[a].status_message[1] = "Animation generation failed: "

\* the (status, progress, status message) of each write of the job state
\* machine: the creation and the calls of update_animation_status
WrittenTriples ==
    { << "pending", 0, <<"Initializing animation generation">> >>,
      << "processing", 10, <<"Generating Manim code">> >>,
      << "processing", 30, <<"Code generated, preparing to render animation">> >>,
      << "processing", 40, <<"Starting animation rendering">> >>,
      << "processing", 80, <<"Rendering complete, processing video">> >>,
      << "failed", 0, NoVideoError >>,
      << "completed", 100, <<"Animation generated successfully">> >> }
    \cup { << "failed", 0, <<"Animation generation failed: ">> \o ManimError(err) >> :
             err \in ErrTexts }

\* C15: what get_animation_status returns to a concurrent reader for an
\* animation of a request is, in every state, the status, progress and
\* status message of one single write, never a mix of two.
C15_StatusReadIsOneWrite ==
    \A j \in Jobs, u \in Users :
        LET answer == get_animation_status(ReaderSession, j, u)
        IN  answer # << >> =>
               << answer[1].status, answer[1].progress,
                  answer[1].status_message >> \in WrittenTriples

\* C15's case: a concurrent reader polls between two writes of a job, and
\* again after it has failed
C15_ReaderSeesJobStatus ==
    \E i, j \in Jobs, u \in Users :
        /\ get_animation_status(ReaderSession, i, u) # << >>
        /\ get_animation_status(ReaderSession, i, u)[1].progress = 30
        /\ pc[i] = "status40"
        /\ get_animation_status(ReaderSession, j, u) # << >>
        /\ get_animation_status(ReaderSession, j, u)[1].status = "failed"

\* C16: update_animation_status called with an animation id that is not in
\* the store returns False, raises nothing (the job goes on to the renderer
\* with no exception and no result) and changes no animation row.
C16_UnknownAnimationNotFound ==
    [][ \A j \in Jobs :
          ( /\ pc[j] = "status40" /\ pc'[j] = "run"
            /\ job[j].animation_id \notin DOMAIN animations ) =>
              /\ ~ update_animation_status_returns(animations, j,
                                                   job[j].animation_id)
              /\ animations' = animations
              /\ result'[j] = result[j]
              /\ job'[j].exc = job[j].exc ]_vars

\* C16's case: a job whose animation was deleted with its conversation has
\* written the status before rendering and is at the renderer
C16_JobPastDeletedAnimation ==
    \E j \in Jobs :
        /\ pc[j] = "run"
        /\ job[j].path = "animation_not_found"
        /\ job[j].animation_id \notin DOMAIN animations

\* C17: get_or_create_conversation called with an id that does not exist or
\* is owned by a different actor raises the not-found error and creates no
\* conversation; called with an id the actor owns it returns that
\* conversation and creates none; called with no id it creates exactly one
\* new conversation, owned by the actor, and returns it.
C17_GetOrCreateConversation ==
    [][ \A j \in Jobs, u \in Users, cid \in ConvIds \cup {None}, t \in TitleArgs :
          GetOrCreateCall(j, u, cid, t) =>
            LET owned == \E c \in conversations :
                            c.id = cid /\ c.user_id = u /\ Visible(j, c)
                created == conversations' \ conversations
            IN  /\ ( cid # None /\ ~ owned ) =>
                      /\ job'[j].exc = "ValueError"
                      /\ conversations' = conversations
                /\ ( cid # None /\ owned ) =>
                      /\ job'[j].exc = ""
                      /\ job'[j].conversation_id = cid
                      /\ conversations' = conversations
                /\ cid = None =>
                      /\ job'[j].exc = ""
                      /\ conversations \subseteq conversations'
                      /\ Cardinality(created) = 1
                      /\ \A c \in created :
                            c.user_id = u /\ c.id = job'[j].conversation_id ]_vars

\* C17's case: one call created a conversation, committed since, and a call
\* of another actor that named it was refused
C17_CreatedThenRefused ==
    \E i, j \in Jobs :
        /\ i # j
        /\ pc[i] = "done" /\ pc[j] = "called"
        /\ job[j].exc = "ValueError"
        /\ \E c \in conversations :
              /\ c.id = i /\ c.pending = 0
              /\ c.user_id = job[i].user_id
              /\ c.user_id # job[j].user_id

\* C18: every request that names a conversation which is absent or owned by
\* a different actor (get conversation, rename, delete, generate-animation)
\* is answered 404.
C18_MissingConversationAnswered404 ==
    [][ \A j \in Jobs, u \in Users, cid \in ConvIds, t \in NewTitles :
          /\ ( GetConversation(j, u, cid)
               /\ OwnedConversation(j, cid, u) = {} ) => response'[j] = 404
          /\ ( RenameConversation(j, u, cid, t)
               /\ OwnedConversation(j, cid, u) = {} ) => response'[j] = 404
          /\ ( DeleteBegin(j, u, cid)
               /\ OwnedConversation(j, cid, u) = {} ) => response'[j] = 404
          /\ ( RouteFinish(j)
               /\ job[j].path = "conversation_not_found" ) => response'[j] = 404
      ]_vars

\* the two of the four endpoints that do answer 404
GetAndDeleteAnswer404 ==
    [][ \A j \in Jobs, u \in Users, cid \in ConvIds :
          /\ ( GetConversation(j, u, cid)
               /\ OwnedConversation(j, cid, u) = {} ) => response'[j] = 404
          /\ ( DeleteBegin(j, u, cid)
               /\ OwnedConversation(j, cid, u) = {} ) => response'[j] = 404
      ]_vars

\* what the other two answer
RenameAndGenerateAnswer500 ==
    [][ \A j \in Jobs, u \in Users, cid \in ConvIds, t \in NewTitles :
          /\ ( RenameConversation(j, u, cid, t)
               /\ OwnedConversation(j, cid, u) = {} ) => response'[j] = 500
          /\ ( RouteFinish(j)
               /\ job[j].path = "conversation_not_found" ) => response'[j] = 500
      ]_vars

\* C19: rename_conversation and delete_conversation called with an
\* (id, actor) pair that matches no conversation the actor owns return None
\* and False (no DELETE statement follows) and leave every conversation,
\* animation and message row as it was.
C19_UnownedRenameDeleteChangeNothing ==
    [][ \A j \in Jobs, u \in Users, cid \in ConvIds, t \in NewTitles :
          /\ ( RenameConversation(j, u, cid, t)
               /\ OwnedConversation(j, cid, u) = {} ) =>
                 /\ rename_conversation(conversations, j, cid, u, t).returns = << >>
                 /\ UNCHANGED << conversations, animations, messages >>
          /\ ( DeleteBegin(j, u, cid)
               /\ OwnedConversation(j, cid, u) = {} ) =>
                 /\ pc'[j] = "done"
                 /\ UNCHANGED << conversations, animations, messages >>
      ]_vars

\* C19's case: a rename and a delete of the seeded conversation by an actor
\* who does not own it have been refused, and its rows are there
C19_BothRefused ==
    \E i, j \in Jobs :
        /\ pc[i] = "done" /\ job[i].path = "rename_not_found"
        /\ pc[j] = "done" /\ job[j].path = "delete_not_found"
        /\ SeedConversation \in conversations
        /\ SeedAnimationId \in DOMAIN animations
        /\ messages[SeedConvId] = <<SeedUserMessage, SeedAiMessage>>

\* the rows session s reads hold no reference to a row it does not read: no
\* message references a deleted animation, no message or animation
\* references a deleted conversation
NoDanglingReference(s) ==
    /\ \A c \in ConvIds : \A i \in DOMAIN messages[c] :
          Visible(s, messages[c][i]) =>
             /\ ConversationExists(s, messages[c][i].conversation_id)
             /\ messages[c][i].animation_id # None =>
                   /\ messages[c][i].animation_id \in DOMAIN animations
                   /\ Visible(s, animations[messages[c][i].animation_id])
    /\ \A a \in DOMAIN animations :
          Visible(s, animations[a]) =>
             ConversationExists(s, animations[a].conversation_id)

\* C20: delete_conversation by the owner deletes the messages, then the
\* animations, then the conversation: in no state, the states between its
\* statements included, does the deleting session, another request's session
\* or a reader of the committed rows see a message that references a deleted
\* animation or a row that references a deleted conversation; and once the
\* delete is committed get_conversation_with_animations of the conversation
\* and get_animation_status of each animation it had return None.
C20_DeleteOrderLeavesNoDanglingRow ==
    /\ [] ( \A s \in Jobs \cup {ReaderSession} : NoDanglingReference(s) )
    /\ [][ \A j \in Jobs, u \in Users, cid \in ConvIds :
             ( /\ DeleteCommit(j)
               /\ job[j].conversation_id = cid /\ job[j].user_id = u ) =>
                 /\ ( get_conversation_with_animations(ReaderSession, cid, u) )' = << >>
                 /\ \A a \in { x \in DOMAIN animations :
                                 animations[x].conversation_id = cid } :
                       ( get_animation_status(ReaderSession, a, u) )' = << >>
         ]_vars

\* C20's case: the owner's delete of the seeded conversation is committed
\* and its conversation, animation and messages are gone
C20_SeededConversationDeleted ==
    \E j \in Jobs :
        /\ pc[j] = "done" /\ response[j] = 204
        /\ \A c \in conversations : c.id # SeedConvId
        /\ SeedAnimationId \notin DOMAIN animations
        /\ messages[SeedConvId] = << >>

\* a sequence of rows is in ascending order of created_at
AscendingCreatedAt(rows) ==
    \A i, k \in DOMAIN rows : i < k => rows[i].created_at <= rows[k].created_at

\* C21: get_conversation_with_messages_and_animations, called for the owner
\* in any session, returns every animation and every message of the
\* conversation that the session reads, each once and each collection in
\* ascending order of creation time; for a conversation that is missing or
\* owned by another actor it returns None.
C21_HistoryCompleteAndOrdered ==
    \A s \in Jobs \cup {ReaderSession}, cid \in ConvIds, u \in Users :
        LET history == get_conversation_with_messages_and_animations(s, cid, u)
        IN  IF OwnedConversation(s, cid, u) = {}
            THEN history = << >>
            ELSE /\ Len(history) = 1
                 /\ AscendingCreatedAt(history[1].animations)
                 /\ AscendingCreatedAt(history[1].messages)
                 /\ { history[1].animations[i] : i \in DOMAIN history[1].animations }
                       = LoadedAnimations(s, cid)
                 /\ Len(history[1].animations) = Cardinality(LoadedAnimations(s, cid))
                 /\ Len(history[1].messages) = Len(MessagesOf(s, cid))
                 /\ \A i \in DOMAIN history[1].messages :
                       /\ history[1].messages[i].content = MessagesOf(s, cid)[i].content
                       /\ history[1].messages[i].type = MessagesOf(s, cid)[i].type

\* C21's case: the committed history of the seeded conversation holds a
\* job's animation after the seeded one, whose id is the larger, and the
\* job's user message after the two seeded messages
C21_HistoryOfTwoJobs ==
    LET history == get_conversation_with_messages_and_animations(
                       ReaderSession, SeedConvId, "u1")
    IN  /\ Len(history) = 1
        /\ Len(history[1].animations) >= 2
        /\ history[1].animations[1].id > history[1].animations[2].id
        /\ Len(history[1].messages) >= 3
        /\ get_conversation_with_messages_and_animations(
               ReaderSession, SeedConvId, "u2") = << >>

\* the result of a job on a conversation the request opened, as session s
\* reads it: a title that begins with the first five words of the query, one
\* user message, one animation, COMPLETED at version 1, and one ai message
\* linked to it
NewConversationSucceeded(s, conversation_id, query) ==
    LET convs == { c \in conversations : c.id = conversation_id /\ Visible(s, c) }
        anims == { a \in DOMAIN animations :
                     /\ animations[a].conversation_id = conversation_id
                     /\ Visible(s, animations[a]) }
        msgs == MessagesOf(s, conversation_id)
        ofType(t) == { i \in DOMAIN msgs : msgs[i].type = t }
    IN  /\ Cardinality(convs) = 1
        /\ \A c \in convs :
              /\ Len(c.title) >= 5
              /\ c.title[1] = Capitalize(query[1])
              /\ \A i \in 2..5 : c.title[i] = query[i]
        /\ Cardinality(anims) = 1
        /\ \A a \in anims : animations[a].status = "completed"
                            /\ animations[a].version = 1
        /\ Cardinality(ofType("user")) = 1
        /\ Cardinality(ofType("ai")) = 1
        /\ \A i \in ofType("ai") : msgs[i].animation_id \in anims

\* C22: a request with no conversation id whose job is not failed by the
\* code provider or by the renderer ends with a new conversation titled by
\* the first five words of the query, one user message, one animation
\* COMPLETED at version 1 and one ai message linked to that animation.
C22_NewConversationJob ==
    \A j \in Jobs :
        ( /\ JobEnded(j)
          /\ job[j].conversation_id = j
          /\ job[j].path \notin { "provider_error", "render_failed",
                                  "artifact_missing" } ) =>
            NewConversationSucceeded(j, j, job[j].query)

\* C23: a second request on a conversation that passes version 1's
\* generated source as previous_code, and whose renderer wrote its file,
\* records an animation with version 2 whose stored generated_code equals
\* version 1's.
C23_RevisionKeepsSource ==
    \A j \in Jobs :
        LET anims == { a \in DOMAIN animations :
                         /\ animations[a].conversation_id = job[j].conversation_id
                         /\ Visible(j, animations[a]) }
            first == { a \in anims : animations[a].version = 1 /\ a # j }
        IN  ( /\ JobEnded(j)
              /\ job[j].path = "artifact_found"
              /\ j \in anims
              /\ Cardinality(anims) = 2 /\ Cardinality(first) = 1 ) =>
                \A a \in first :
                    job[j].generated_code = animations[a].generated_code =>
                        /\ animations[j].version = 2
                        /\ animations[j].generated_code
                              = animations[a].generated_code

\* the version of such a request's animation is 2
RevisionIsVersionTwo ==
    \A j \in Jobs :
        LET anims == { a \in DOMAIN animations :
                         /\ animations[a].conversation_id = job[j].conversation_id
                         /\ Visible(j, animations[a]) }
            first == { a \in anims : animations[a].version = 1 /\ a # j }
        IN  ( /\ JobEnded(j)
              /\ job[j].path = "artifact_found"
              /\ j \in anims
              /\ Cardinality(anims) = 2 /\ Cardinality(first) = 1 ) =>
                animations[j].version = 2

\* C24: after any sequence of create_conversation, get_or_create_conversation
\* and rename_conversation calls, with any title, prompt or new title, every
\* conversation has a non-empty title.
C24_TitlesNonEmpty ==
    \A c \in conversations : c.title # << >> /\ ~ IsEmptyText(c.title)

\* the titles create_conversation and get_or_create_conversation give are
\* non-empty but for the one made from a prompt of whitespace only
OnlyRenameAndBlankPromptEmptyTitle ==
    [][ /\ \A u \in ApiUsers, t \in TitleTexts, p \in TitleTexts :
             ( StartNewConversation(u, t, p) /\ ( t # << >> \/ Split(p) # << >> \/ p = << >> ) )
                => \A c \in conversations' \ conversations : c.title # << >>
        /\ \A j \in Jobs, u \in ApiUsers, t \in TitleTexts :
             GetOrCreateCall(j, u, None, t)
                => \A c \in conversations' \ conversations : c.title # << >>
      ]_vars

\* C25: the command run_manim_script builds carries "-ql", "-qm", "-qh" for
\* low, medium and high, three different flags, and "-ql" for any other
\* quality, None included; the lookup raises for none of them.
C25_QualityFlagTotal ==
    /\ \A q \in QualityArgs : QualityFlag(q) \in { "-ql", "-qm", "-qh" }
    /\ \A q, r \in Qualities : QualityFlag(q) = QualityFlag(r) => q = r
    /\ \A j \in Jobs :
          pc[j] \in { "communicate", "done" } =>
             /\ job[j].cmd[6] = QualityFlag(job[j].quality)
             /\ job[j].quality = "low" => job[j].cmd[6] = "-ql"
             /\ job[j].quality = "medium" => job[j].cmd[6] = "-qm"
             /\ job[j].quality = "high" => job[j].cmd[6] = "-qh"
             /\ job[j].quality \notin Qualities => job[j].cmd[6] = "-ql"

\* C25's case: a renderer was started with an unrecognized quality or with
\* none, and its command carries the flag of the low tier
C25_UnrecognizedOrMissing ==
    \E j \in Jobs :
        /\ pc[j] \in { "communicate", "done" }
        /\ job[j].quality \in { "ultra", "None" }
        /\ job[j].cmd[6] = "-ql"

\* the call goes on from communicate() only when the subprocess has exited
\* and everything it wrote to stdout and stderr has been captured, and what
\* it then returns follows the exit code
ClassifiedOnlyAfterExit ==
    \A j \in Jobs :
        pc[j] = "done" =>
            /\ job[j].state = "exited"
            /\ job[j].captured = job[j].written
            /\ job[j].returns # << >> =>
                  job[j].returns[1].success = (job[j].returncode = << 0 >>)

\* C30: when run_manim_script is over, the subprocess has exited and
\* everything it wrote to stdout and stderr has been captured; on a
\* non-zero exit code the call has returned False and a message that holds
\* the captured stderr, on exit code 0 it has returned True and the empty
\* message.
C30_ClassifiedAfterExit ==
    \A j \in Jobs :
        pc[j] = "done" =>
            /\ job[j].state = "exited"
            /\ job[j].captured = job[j].written
            /\ job[j].returncode # << 0 >> =>
                  /\ job[j].returns # << >>
                  /\ job[j].returns[1].success = FALSE
                  /\ Len(job[j].returns[1].error_msg) > Len(job[j].captured.stderr)
                  /\ SubSeq(job[j].returns[1].error_msg, 2,
                            Len(job[j].returns[1].error_msg))
                        = job[j].captured.stderr
            /\ job[j].returncode = << 0 >> =>
                  job[j].returns = << [ success |-> TRUE, error_msg |-> << >> ] >>

\* the decodable part of C30: a call whose subprocess wrote only UTF-8
\* returns by the exit code, with the captured stderr in the message
DecodableOutputClassified ==
    \A j \in Jobs :
        ( /\ pc[j] = "done"
          /\ Decodes(job[j].captured.stdout)
          /\ Decodes(job[j].captured.stderr) ) =>
            /\ job[j].raises = << >>
            /\ job[j].returncode # << 0 >> =>
                  job[j].returns = << [ success |-> FALSE,
                       error_msg |-> <<"Manim execution failed: ">>
                                        \o job[j].captured.stderr ] >>
            /\ job[j].returncode = << 0 >> =>
                  job[j].returns = << [ success |-> TRUE, error_msg |-> << >> ] >>

AnimationsIn(conversation_id) ==
    { a \in DOMAIN animations : animations[a].conversation_id = conversation_id }
SaveInFlight(conversation_id) ==
    \E a \in AnimationsIn(conversation_id) : animations[a].pending # 0

JobDirectoryNeverRemoved ==
    \A j \in Jobs : pc[j] # "idle" => j \in jobDirs
VideoUrlNeverReported ==
    /\ \A j \in Jobs : result[j].video_url = "" /\ pc[j] # "copy"
    /\ \A a \in DOMAIN animations : a \in Jobs => animations[a].video_url = ""

\* C29: when generate_animation_from_query has ended, its job directory has
\* been removed, and the caller has what the function's body delivered: the
\* tuple of the failure branch taken, or the except block's tuple or
\* exception, never an exception of the cleanup.
C29_CleanupKeepsResult ==
    \A j \in Jobs :
        pc[j] = "route" =>
            /\ j \notin jobDirs
            /\ result[j] # Raised("AttributeError")
            /\ job[j].path \in { "render_failed", "artifact_missing" } =>
                  result[j] = Returned(FALSE, "", job[j].error_msg,
                                       job[j].animation_id,
                                       job[j].conversation_id)

\* what the caller has instead, on every path
CallEndsInAttributeError ==
    \A j \in Jobs : pc[j] = "route" => result[j] = Raised("AttributeError")

\* the rows session s has written and not committed: inserted, or deleted
UncommittedBy(s) ==
    { c \in conversations : c.pending \in {s, -s} }
       \cup { animations[a] : a \in { x \in DOMAIN animations :
                                        animations[x].pending \in {s, -s} } }
       \cup UNION { { messages[c][i] : i \in { k \in DOMAIN messages[c] :
                                        messages[c][k].pending \in {s, -s} } } :
                    c \in ConvIds }

\* C32: while a job waits for its renderer, its session has no uncommitted
\* row, so no other request waits for a lock of it, and a status poll reads
\* the job's animation as the job last wrote it.
C32_NoUncommittedWriteWhileRendering ==
    \A j \in Jobs :
        pc[j] = "run" =>
            /\ UncommittedBy(j) = {}
            /\ job[j].animation_id \in DOMAIN animations =>
                  LET poll == get_animation_status(ReaderSession,
                                  job[j].animation_id, job[j].user_id)
                  IN  /\ poll # << >>
                      /\ poll[1].status = "processing"
                      /\ poll[1].progress = 40

\* C32's case: a job waits for its renderer while another job of the same
\* conversation, started after it, has written its own statuses up to 40%
C32_OtherJobWroteDuringWait ==
    \E i, j \in Jobs :
        /\ i < j
        /\ pc[i] = "run" /\ pc[j] = "run"
        /\ job[i].conversation_id = job[j].conversation_id
        /\ j \in DOMAIN animations /\ animations[j].progress = 40
        /\ animations[j].pending = 0

\* the part of C33 about the status: when the endpoint answers a job that
\* failed in rendering or artifact discovery, the committed animation is
\* FAILED, as a status poll reads it
FailedStatusOutlivesResponse ==
    [][ \A j \in Jobs :
          ( /\ pc[j] = "route" /\ pc'[j] = "done"
            /\ job[j].path \in { "render_failed", "artifact_missing" } ) =>
             /\ job[j].animation_id \in DOMAIN animations'
             /\ animations'[job[j].animation_id].pending = 0
             /\ animations'[job[j].animation_id].status = "failed"
      ]_vars

\* C33: when the endpoint has answered a job that failed in rendering or
\* artifact discovery, the committed rows hold the failure both ways: the
\* animation is FAILED, and the conversation has the job's ai message
\* "Failed to generate animation: ..." (the endpoint's rollback undoes
\* neither).
C33_FailureOutlivesResponse ==
    [][ \A j \in Jobs :
          ( /\ pc[j] = "route" /\ pc'[j] = "done"
            /\ job[j].path \in { "render_failed", "artifact_missing" } ) =>
             /\ job[j].animation_id \in DOMAIN animations'
             /\ animations'[job[j].animation_id].pending = 0
             /\ animations'[job[j].animation_id].status = "failed"
             /\ \E i \in DOMAIN messages'[job[j].conversation_id] :
                   LET m == messages'[job[j].conversation_id][i]
                   IN  /\ m.pending = 0
                       /\ m.type = "ai"
                       /\ m.content = <<"Failed to generate animation: ">>
                                         \o job[j].error_msg
      ]_vars

\* the text of the success branch's ai message
RenderOutcomeText == <<"Animation generated successfully">>

\* C34: every message that refers to an animation is an ai message with the
\* text of a render outcome, and the animation is one of the message's
\* conversation; user messages and ai failure messages refer to none.
C34_AnimationReferenceOnlyOnOutcome ==
    \A c \in ConvIds : \A i \in DOMAIN messages[c] :
        LET m == messages[c][i]
        IN  /\ m.animation_id # None =>
                  /\ m.type = "ai"
                  /\ m.content = RenderOutcomeText
                  /\ m.animation_id \in DOMAIN animations
                  /\ animations[m.animation_id].conversation_id = c
            /\ m.type = "user" => m.animation_id = None
            /\ ( m.type = "ai" /\ m.content # RenderOutcomeText ) =>
                  m.animation_id = None

\* what holds of the messages the jobs write
JobMessagesReferToNoAnimation ==
    \A c \in ConvIds : \A i \in DOMAIN messages[c] :
        messages[c][i].content \notin MessageContents \cup {RenderOutcomeText} =>
            messages[c][i].animation_id = None

\* what C35 says of a title and the prompt it is made from
TitleOfPrompt(title, prompt) ==
    LET words == Split(prompt)
        stripped == Strip(prompt)
    IN  IF Len(words) > 5
        THEN /\ Len(title) = 6
             /\ title[6] = "..."
             /\ title[1] = Capitalize(words[1])
             /\ \A i \in 2..5 : title[i] = words[i]
        ELSE /\ Len(title) = Len(stripped)
             /\ Len(title) > 0 => title[1] = Capitalize(stripped[1])
             /\ \A i \in 2..Len(title) : title[i] = stripped[i]

\* C35: the title generate_conversation_title makes of a prompt of more than
\* five words is its first five words, singly spaced, and "..."; of a prompt
\* of at most five words, the prompt without the whitespace around it; in
\* both the first character is upper-cased and nothing else is changed.
C35_TitleFromPrompt ==
    [][ /\ \A u \in ApiUsers, p \in PromptTexts :
             StartNewConversation(u, << >>, p)
                => \A c \in conversations' \ conversations :
                      TitleOfPrompt(c.title, p)
        /\ \A j \in Jobs, u \in ApiUsers, q \in PromptTexts :
             RouteBegin(j, u, None, q)
                => \A c \in conversations' \ conversations :
                      TitleOfPrompt(c.title, q)
      ]_vars

\* C35's case: a title cut after five words, beside one of a short prompt
\* that keeps the whitespace between its words and one whose first word had
\* upper-case letters after the first
C35_LongAndShortTitles ==
    \E c, d, e \in conversations :
        /\ c.title = << "Draw", "a", "triangle", "turning", "into", "..." >>
        /\ d.title = << "Draw", " ", "a", "circle" >>
        /\ e.title = << "MIXED", "case" >>

\* request j, taking a step, is a generate request of another user than the
\* owner of conversation c, which it names
ForeignRequestSteps(j, c) ==
    /\ pc'[j] # pc[j]
    /\ LET request == IF pc[j] = "idle" THEN job'[j] ELSE job[j]
       IN  /\ request.conversation_id = c.id
           /\ request.user_id # c.user_id

\* C36: no step of a generate request that names a conversation of another
\* user changes the messages and animations of that conversation as its
\* owner, or any session but the request's, reads them; and when the request
\* has been answered, none of its rows is left.
C36_ForeignRequestLeavesNoTrace ==
    [][ \A j \in Jobs : \A c \in conversations :
          ForeignRequestSteps(j, c) =>
             /\ MessagesOf(ReaderSession, c.id)'
                   = MessagesOf(ReaderSession, c.id)
             /\ LoadedAnimations(ReaderSession, c.id)'
                   = LoadedAnimations(ReaderSession, c.id)
             /\ \A i \in Jobs \ {j} :
                   MessagesOf(i, c.id)' = MessagesOf(i, c.id)
             /\ pc'[j] = "done" =>
                   /\ UncommittedBy(j)' = {}
                   /\ \A i \in DOMAIN messages'[c.id] :
                         \E k \in DOMAIN messages[c.id] :
                            /\ messages'[c.id][i] = messages[c.id][k]
                            /\ messages[c.id][k].pending # j
      ]_vars

\* C36's case: a request of u2 has named the conversation of u1 and has
\* ended in the except block, whose ai message waits in the request's
\* session, in that conversation
C36_ForeignRequestRefused ==
    \E j \in Jobs : \E c \in conversations :
        /\ pc[j] = "route"
        /\ job[j].path = "conversation_not_found"
        /\ c.id = job[j].conversation_id /\ c.pending = 0
        /\ c.user_id # job[j].user_id
        /\ \E i \in DOMAIN messages[c.id] :
              messages[c.id][i].pending = j /\ messages[c.id][i].type = "ai"

\* the generate request j is answered in this step, it had named a
\* conversation and passed get_or_create_conversation, and the conversation
\* has been deleted since
AnsweredAfterDelete(j) ==
    /\ pc[j] = "route" /\ pc'[j] = "done"
    /\ job[j].path \notin { "conversation_not_found", "delete" }
    /\ job[j].conversation_id \in ConvIds \ {j}
    /\ \A c \in conversations' : c.id # job[j].conversation_id

\* the part of C37 about the rows and the job's end: when a job whose
\* conversation was deleted under it is answered, the job has returned or
\* raised and no animation or message refers to the conversation
DeletedUnderJobLeavesNoRow ==
    [][ \A j \in Jobs :
          AnsweredAfterDelete(j) =>
             /\ result[j].kind \in { "returned", "raised" }
             /\ \A a \in DOMAIN animations' :
                   animations'[a].conversation_id # job[j].conversation_id
             /\ messages'[job[j].conversation_id] = << >>
      ]_vars

\* C37: when a job whose conversation the owner deleted while it ran has
\* been answered, no animation or message refers to the conversation, the
\* job has returned or raised, and its job directory is gone.
C37_DeleteUnderJob ==
    [][ \A j \in Jobs :
          AnsweredAfterDelete(j) =>
             /\ result[j].kind \in { "returned", "raised" }
             /\ \A a \in DOMAIN animations' :
                   animations'[a].conversation_id # job[j].conversation_id
             /\ messages'[job[j].conversation_id] = << >>
             /\ j \notin jobDirs'
      ]_vars

\* the case happens: a job past its first status write is at the route with
\* its conversation deleted and the delete committed
JobOutlivedItsConversation ==
    \E j \in Jobs :
        /\ pc[j] = "route"
        /\ job[j].animation_id # None
        /\ job[j].conversation_id # j
        /\ \A c \in conversations : c.id # job[j].conversation_id

====
